---- MODULE Spec2Model ----
(***************************************************************************)
(* Verification model of openapi-codegen-toolkit.                          *)
(*                                                                         *)
(* The module holds these state machines over one set of variables:        *)
(*   SpecGen     the orchestrator (Generator.generateAll / executeStep)    *)
(*   SpecScan    the brace scanner of DeepSchemaTypeExtractor              *)
(*   SpecWalk    the nested-schema walker run over all roots of a domain   *)
(*   SpecResp    the response / RO resolution of TypeGenerator             *)
(*   SpecParams  the parameter groups of TypeGenerator.processSchema       *)
(*   SpecOps     SchemaParser.extractAllOperations                         *)
(*   SpecTags    the tag classifier and the generators that filter by tag  *)
(*   SpecNames   the property type names of DeepSchemaTypeExtractor        *)
(*   SpecIds     the endpoint constant and wrapper function names          *)
(*   SpecFlags   Generator.getEnabledSteps over every shape of a flag      *)
(*   SpecHooks  the hook step over the API files that exist or not         *)
(*   SpecClassify  the query / mutation classification of a wrapper        *)
(*   SpecResolve  the type resolution of a query or mutation hook          *)
(*   SpecEndpointFile  the two sections of the endpoint file               *)
(*   SpecHeaders  the controller headers of the validated types            *)
(*   SpecParser  SchemaParser.loadSchema and extractAllPaths               *)
(*   SpecWalkShortcut  the walker over a graph with a shorter second path  *)
(*   SpecTagFile  the tag file written and read back                       *)
(*   SpecGenFair  SpecGen with weak fairness of the orchestrator           *)
(* Each specification leaves the variables of the other machines at their  *)
(* idle values.                                                            *)
(***************************************************************************)
EXTENDS Integers, Sequences, FiniteSets, TLC

VARIABLES
    \* ---- orchestrator (src/src/core/Generator.js) ----
    featureFlags,   \* config.featureFlags : flagKey -> flag shape
    generators,     \* the executors that are registered (this.generators)
    schemaTags,     \* per server: number of tags its schema yields
    tagsFile,       \* per server: number of tags in tags.ts on disk (0: none)
    gpc,            \* position in generateAll: "idle","loop","exec","done"
    gi,             \* index i into enabledSteps
    srv,            \* index of the server executeStep is at
    tg,             \* index of the tag executeStep is at
    success,        \* results.success
    failed,         \* results.failed (step names)
    log,            \* history: the executor invocations, in order
    reached,        \* history: the steps the loop of generateAll reached
    \* ---- brace scanner (src/unnamed/part_002:198-259) ----
    text,           \* componentsSchemasBlock after the opening brace
    pos, braceCount, inString, inComment, escapeNext,
    spc,            \* "idle","scan","found","notfound"
    \* ---- nested schema walker (src/unnamed/part_002:459-494,857-893) ----
    refs,           \* allSchemas: schema -> the schemas its body references
    roots,          \* schemaNames handed to generateConsolidatedDeepSchemaFile
    rootIdx,        \* index of the root being processed
    globalProcessedTypes,
    allProcessedSchemas, \* per processed root: its nestedTypes
    warned,         \* a depth-cap warning was logged
    again,          \* the last repeated walk: its input and what it returned
    wpc,            \* "idle","run","done"
    \* ---- response resolution (src/src/generators/TypeGenerator.js) ----
    opToks,         \* operationDetails of one operation: its responses and
                    \* the tokens of their text
    schemaDefs,     \* componentsSchemasBlock: sequence of schema definitions
    generatedTypes, \* the aliases pushed for the operation
    warnings,       \* number of fallback warnings logged
    rpc,             \* "idle","ready","done"
    \* ---- parameter groups (src/src/generators/TypeGenerator.js:115-143) ----
    parameters, paramsParts, ppc,
    \* ---- operation extraction (src/src/parsers/SchemaParser.js:162-205) ----
    pathItem, extracted, xpc,
    \* ---- tag classifier (src/src/generators/TagsGenerator.js:51-143) ----
    serverName,     \* the interface description the tags are extracted for
    paths,          \* the paths of its paths block, in order
    pathIdx,        \* index of the path the loop is at
    tags, pathsData,
    assigned,       \* history: the tag given to each path, Null included
    sortedTags, tagStats,
    typedPaths,     \* the paths validated type aliases were emitted for
    endpointPaths,  \* the paths endpoint constants were emitted for
    tpc,             \* "idle","extract","done","typed","generated"
    \* ---- property type names (src/unnamed/part_002:582-652,904-927) ----
    props, propIdx, generatedPropertyTypes, emitted, npc,
    \* ---- identifiers of one tag (src/unnamed/part_006:44-98, src/src/generators/EndpointGenerator.js:65-88) ----
    idPaths, idTag, idIdx, endpointData, ipc,
    \* ---- enabled steps (src/src/core/Generator.js:93-117) ----
    flagCfg, kept, fpc,
    \* ---- hook step (src/src/generators/ReactQueryGenerator.js:43-95) ----
    apiFile, schemaFile, hs, ht, hookFiles, hookCalls, hpc,
    \* ---- hook classification (src/src/generators/ReactQueryGenerator.js:101-133) ----
    namingCfg, wMethod, wPath, wrapper, hookType, cpc,
    \* ---- hook type resolution (src/src/generators/ReactQueryGenerator.js:248-373) ----
    hkKind, sigTypes, opTypes, nameTypes, resolved, tpcr,
    \* ---- endpoint file (src/src/generators/EndpointGenerator.js:100-155) ----
    epPaths, apiSection, helpersSection, epc,
    \* ---- controller headers (src/src/generators/TypeGenerator.js:255-269) ----
    typeLines, finalTypes, dpc,
    \* ---- schema parser (src/src/parsers/SchemaParser.js:29-119) ----
    fileText, loaded, schemaContent, cached, pathsContent, lastCall, result,
    \* ---- tag file round trip (src/src/generators/TagsGenerator.js:136-204, src/src/core/Generator.js:262-282) ----
    tfServer, tfTags, tfFile, parsedTags, fpcT

genVars  == <<featureFlags, generators, schemaTags, tagsFile, gpc, gi, srv, tg,
              success, failed, log, reached>>
scanVars == <<text, pos, braceCount, inString, inComment, escapeNext, spc>>
walkVars == <<refs, roots, rootIdx, globalProcessedTypes, allProcessedSchemas,
              warned, again, wpc>>
respVars == <<opToks, schemaDefs, generatedTypes, warnings, rpc>>
parVars == <<parameters, paramsParts, ppc>>
opsVars == <<pathItem, extracted, xpc>>
tagVars == <<serverName, paths, pathIdx, tags, pathsData, assigned, sortedTags,
             tagStats, typedPaths, endpointPaths, tpc>>
nameVars == <<props, propIdx, generatedPropertyTypes, emitted, npc>>
idVars == <<idPaths, idTag, idIdx, endpointData, ipc>>
flagVars == <<flagCfg, kept, fpc>>
hookVars == <<apiFile, schemaFile, hs, ht, hookFiles, hookCalls, hpc>>
clsVars == <<namingCfg, wMethod, wPath, wrapper, hookType, cpc>>
resVars == <<hkKind, sigTypes, opTypes, nameTypes, resolved, tpcr>>
epVars == <<epPaths, apiSection, helpersSection, epc>>
hdrVars == <<typeLines, finalTypes, dpc>>
prsVars == <<fileText, loaded, schemaContent, cached, pathsContent, lastCall, result>>
tfVars == <<tfServer, tfTags, tfFile, parsedTags, fpcT>>
vars == <<genVars, scanVars, walkVars, respVars, parVars, opsVars, tagVars, nameVars, idVars, flagVars, hookVars, clsVars, resVars, epVars, hdrVars, prsVars, tfVars>>

\* the variables of the other machines, which the actions of a machine
\* leave alone
notGenVars  == <<scanVars, walkVars, respVars, parVars, opsVars, tagVars, nameVars, idVars, flagVars, hookVars, clsVars, resVars, epVars, hdrVars, prsVars, tfVars>>
notScanVars == <<genVars, walkVars, respVars, parVars, opsVars, tagVars, nameVars, idVars, flagVars, hookVars, clsVars, resVars, epVars, hdrVars, prsVars, tfVars>>
notWalkVars == <<genVars, scanVars, respVars, parVars, opsVars, tagVars, nameVars, idVars, flagVars, hookVars, clsVars, resVars, epVars, hdrVars, prsVars, tfVars>>
notRespVars == <<genVars, scanVars, walkVars, parVars, opsVars, tagVars, nameVars, idVars, flagVars, hookVars, clsVars, resVars, epVars, hdrVars, prsVars, tfVars>>
notParVars == <<genVars, scanVars, walkVars, respVars, opsVars, tagVars, nameVars, idVars, flagVars, hookVars, clsVars, resVars, epVars, hdrVars, prsVars, tfVars>>
notOpsVars == <<genVars, scanVars, walkVars, respVars, parVars, tagVars, nameVars, idVars, flagVars, hookVars, clsVars, resVars, epVars, hdrVars, prsVars, tfVars>>
notTagVars == <<genVars, scanVars, walkVars, respVars, parVars, opsVars, nameVars, idVars, flagVars, hookVars, clsVars, resVars, epVars, hdrVars, prsVars, tfVars>>
notNameVars == <<genVars, scanVars, walkVars, respVars, parVars, opsVars, tagVars, idVars, flagVars, hookVars, clsVars, resVars, epVars, hdrVars, prsVars, tfVars>>
notIdVars == <<genVars, scanVars, walkVars, respVars, parVars, opsVars, tagVars, nameVars, flagVars, hookVars, clsVars, resVars, epVars, hdrVars, prsVars, tfVars>>
notFlagVars == <<genVars, scanVars, walkVars, respVars, parVars, opsVars, tagVars, nameVars, idVars, hookVars, clsVars, resVars, epVars, hdrVars, prsVars, tfVars>>
notHookVars == <<genVars, scanVars, walkVars, respVars, parVars, opsVars, tagVars, nameVars, idVars, flagVars, clsVars, resVars, epVars, hdrVars, prsVars, tfVars>>
notClsVars == <<genVars, scanVars, walkVars, respVars, parVars, opsVars, tagVars, nameVars, idVars, flagVars, hookVars, resVars, epVars, hdrVars, prsVars, tfVars>>
notResVars == <<genVars, scanVars, walkVars, respVars, parVars, opsVars, tagVars, nameVars, idVars, flagVars, hookVars, clsVars, epVars, hdrVars, prsVars, tfVars>>
notEpVars == <<genVars, scanVars, walkVars, respVars, parVars, opsVars, tagVars, nameVars, idVars, flagVars, hookVars, clsVars, resVars, hdrVars, prsVars, tfVars>>
notHdrVars == <<genVars, scanVars, walkVars, respVars, parVars, opsVars, tagVars, nameVars, idVars, flagVars, hookVars, clsVars, resVars, epVars, prsVars, tfVars>>
notPrsVars == <<genVars, scanVars, walkVars, respVars, parVars, opsVars, tagVars, nameVars, idVars, flagVars, hookVars, clsVars, resVars, epVars, hdrVars, tfVars>>
notTfVars == <<genVars, scanVars, walkVars, respVars, parVars, opsVars, tagVars, nameVars, idVars, flagVars, hookVars, clsVars, resVars, epVars, hdrVars, prsVars>>

\* ------------------------------------------------------------------------
\* Idle values of each machine
\* ------------------------------------------------------------------------
GenIdle ==
    /\ featureFlags = <<>> /\ generators = {} /\ schemaTags = <<>>
    /\ tagsFile = <<>> /\ gpc = "idle" /\ gi = 0 /\ srv = 0 /\ tg = 0
    /\ success = <<>> /\ failed = <<>> /\ log = <<>> /\ reached = <<>>

ScanIdle ==
    /\ text = <<>> /\ pos = 0 /\ braceCount = 0 /\ inString = "none"
    /\ inComment = "none" /\ escapeNext = FALSE /\ spc = "idle"

WalkIdle ==
    /\ refs = <<>> /\ roots = <<>> /\ rootIdx = 0
    /\ globalProcessedTypes = {} /\ allProcessedSchemas = <<>>
    /\ warned = FALSE /\ again = <<>> /\ wpc = "idle"

RespIdle ==
    /\ opToks = <<>> /\ schemaDefs = <<>> /\ generatedTypes = <<>>
    /\ warnings = 0 /\ rpc = "idle"

ParIdle ==
    /\ parameters = <<>> /\ paramsParts = <<>> /\ ppc = "idle"

OpsIdle ==
    /\ pathItem = <<>> /\ extracted = <<>> /\ xpc = "idle"

TagIdle ==
    /\ serverName = "" /\ paths = <<>> /\ pathIdx = 0 /\ tags = {} /\ pathsData = <<>>
    /\ assigned = <<>> /\ sortedTags = <<>> /\ tagStats = <<>>
    /\ typedPaths = {} /\ endpointPaths = {} /\ tpc = "idle"

NameIdle ==
    /\ props = <<>> /\ propIdx = 0 /\ generatedPropertyTypes = {} /\ emitted = <<>>
    /\ npc = "idle"

IdIdle ==
    /\ idPaths = <<>> /\ idTag = <<>> /\ idIdx = 0 /\ endpointData = <<>> /\ ipc = "idle"

FlagIdle ==
    flagCfg = <<>> /\ kept = <<>> /\ fpc = "idle"

HookIdle ==
    apiFile = <<>> /\ schemaFile = <<>> /\ hs = 0 /\ ht = 0 /\ hookFiles = {} /\ hookCalls = <<>> /\ hpc = "idle"

ClsIdle ==
    namingCfg = <<>> /\ wMethod = "" /\ wPath = <<>> /\ wrapper = <<>> /\ hookType = "" /\ cpc = "idle"

ResIdle ==
    hkKind = "" /\ sigTypes = <<>> /\ opTypes = <<>> /\ nameTypes = <<>> /\ resolved = <<>> /\ tpcr = "idle"

EpIdle ==
    epPaths = <<>> /\ apiSection = <<>> /\ helpersSection = <<>> /\ epc = "idle"

HdrIdle ==
    typeLines = <<>> /\ finalTypes = <<>> /\ dpc = "idle"

PrsIdle ==
    fileText = <<>> /\ loaded = FALSE /\ schemaContent = <<>> /\ cached = FALSE /\ pathsContent = <<>> /\ lastCall = "idle" /\ result = <<>>

TfIdle ==
    tfServer = <<>> /\ tfTags = {} /\ tfFile = <<>> /\ parsedTags = <<>> /\ fpcT = "idle"

NotGenIdle  == ScanIdle /\ WalkIdle /\ RespIdle /\ ParIdle /\ OpsIdle /\ TagIdle /\ NameIdle /\ IdIdle /\ FlagIdle /\ HookIdle /\ ClsIdle /\ ResIdle /\ EpIdle /\ HdrIdle /\ PrsIdle /\ TfIdle
NotScanIdle == GenIdle /\ WalkIdle /\ RespIdle /\ ParIdle /\ OpsIdle /\ TagIdle /\ NameIdle /\ IdIdle /\ FlagIdle /\ HookIdle /\ ClsIdle /\ ResIdle /\ EpIdle /\ HdrIdle /\ PrsIdle /\ TfIdle
NotWalkIdle == GenIdle /\ ScanIdle /\ RespIdle /\ ParIdle /\ OpsIdle /\ TagIdle /\ NameIdle /\ IdIdle /\ FlagIdle /\ HookIdle /\ ClsIdle /\ ResIdle /\ EpIdle /\ HdrIdle /\ PrsIdle /\ TfIdle
NotRespIdle == GenIdle /\ ScanIdle /\ WalkIdle /\ ParIdle /\ OpsIdle /\ TagIdle /\ NameIdle /\ IdIdle /\ FlagIdle /\ HookIdle /\ ClsIdle /\ ResIdle /\ EpIdle /\ HdrIdle /\ PrsIdle /\ TfIdle
NotParIdle == GenIdle /\ ScanIdle /\ WalkIdle /\ RespIdle /\ OpsIdle /\ TagIdle /\ NameIdle /\ IdIdle /\ FlagIdle /\ HookIdle /\ ClsIdle /\ ResIdle /\ EpIdle /\ HdrIdle /\ PrsIdle /\ TfIdle
NotOpsIdle == GenIdle /\ ScanIdle /\ WalkIdle /\ RespIdle /\ ParIdle /\ TagIdle /\ NameIdle /\ IdIdle /\ FlagIdle /\ HookIdle /\ ClsIdle /\ ResIdle /\ EpIdle /\ HdrIdle /\ PrsIdle /\ TfIdle
NotTagIdle == GenIdle /\ ScanIdle /\ WalkIdle /\ RespIdle /\ ParIdle /\ OpsIdle /\ NameIdle /\ IdIdle /\ FlagIdle /\ HookIdle /\ ClsIdle /\ ResIdle /\ EpIdle /\ HdrIdle /\ PrsIdle /\ TfIdle
NotNameIdle == GenIdle /\ ScanIdle /\ WalkIdle /\ RespIdle /\ ParIdle /\ OpsIdle /\ TagIdle /\ IdIdle /\ FlagIdle /\ HookIdle /\ ClsIdle /\ ResIdle /\ EpIdle /\ HdrIdle /\ PrsIdle /\ TfIdle
NotIdIdle == GenIdle /\ ScanIdle /\ WalkIdle /\ RespIdle /\ ParIdle /\ OpsIdle /\ TagIdle /\ NameIdle /\ FlagIdle /\ HookIdle /\ ClsIdle /\ ResIdle /\ EpIdle /\ HdrIdle /\ PrsIdle /\ TfIdle
NotFlagIdle == GenIdle /\ ScanIdle /\ WalkIdle /\ RespIdle /\ ParIdle /\ OpsIdle /\ TagIdle /\ NameIdle /\ IdIdle /\ HookIdle /\ ClsIdle /\ ResIdle /\ EpIdle /\ HdrIdle /\ PrsIdle /\ TfIdle
NotHookIdle == GenIdle /\ ScanIdle /\ WalkIdle /\ RespIdle /\ ParIdle /\ OpsIdle /\ TagIdle /\ NameIdle /\ IdIdle /\ FlagIdle /\ ClsIdle /\ ResIdle /\ EpIdle /\ HdrIdle /\ PrsIdle /\ TfIdle
NotClsIdle == GenIdle /\ ScanIdle /\ WalkIdle /\ RespIdle /\ ParIdle /\ OpsIdle /\ TagIdle /\ NameIdle /\ IdIdle /\ FlagIdle /\ HookIdle /\ ResIdle /\ EpIdle /\ HdrIdle /\ PrsIdle /\ TfIdle
NotResIdle == GenIdle /\ ScanIdle /\ WalkIdle /\ RespIdle /\ ParIdle /\ OpsIdle /\ TagIdle /\ NameIdle /\ IdIdle /\ FlagIdle /\ HookIdle /\ ClsIdle /\ EpIdle /\ HdrIdle /\ PrsIdle /\ TfIdle
NotEpIdle == GenIdle /\ ScanIdle /\ WalkIdle /\ RespIdle /\ ParIdle /\ OpsIdle /\ TagIdle /\ NameIdle /\ IdIdle /\ FlagIdle /\ HookIdle /\ ClsIdle /\ ResIdle /\ HdrIdle /\ PrsIdle /\ TfIdle
NotHdrIdle == GenIdle /\ ScanIdle /\ WalkIdle /\ RespIdle /\ ParIdle /\ OpsIdle /\ TagIdle /\ NameIdle /\ IdIdle /\ FlagIdle /\ HookIdle /\ ClsIdle /\ ResIdle /\ EpIdle /\ PrsIdle /\ TfIdle
NotPrsIdle == GenIdle /\ ScanIdle /\ WalkIdle /\ RespIdle /\ ParIdle /\ OpsIdle /\ TagIdle /\ NameIdle /\ IdIdle /\ FlagIdle /\ HookIdle /\ ClsIdle /\ ResIdle /\ EpIdle /\ HdrIdle /\ TfIdle
NotTfIdle == GenIdle /\ ScanIdle /\ WalkIdle /\ RespIdle /\ ParIdle /\ OpsIdle /\ TagIdle /\ NameIdle /\ IdIdle /\ FlagIdle /\ HookIdle /\ ClsIdle /\ ResIdle /\ EpIdle /\ HdrIdle /\ PrsIdle

\* ========================================================================
\* ORCHESTRATOR
\* ========================================================================
NumServers == 2
MaxTags == 2

Servers == 1..NumServers

\* defineSteps(): the seven steps in pipeline order
steps ==
    << [executor |-> "generateTypes",           required |-> TRUE,  flagKey |-> "none"],
       [executor |-> "generateTags",            required |-> TRUE,  flagKey |-> "none"],
       [executor |-> "generateValidatedTypes",  required |-> FALSE, flagKey |-> "generateValidatedTypes"],
       [executor |-> "generateDeepSchema",      required |-> FALSE, flagKey |-> "generateDeepSchema"],
       [executor |-> "generateEndpoints",       required |-> FALSE, flagKey |-> "generateEndpoints"],
       [executor |-> "generateDomainAPI",       required |-> FALSE, flagKey |-> "generateDomainAPI"],
       [executor |-> "generateReactQueryHooks", required |-> FALSE, flagKey |-> "generateReactQueryHooks"] >>

Executors == {steps[k].executor : k \in 1..Len(steps)}
FlagKeys == {steps[k].flagKey : k \in 1..Len(steps)} \ {"none"}

\* index of an executor in the pipeline
StepIndex(e) == CHOOSE k \in 1..Len(steps) : steps[k].executor = e

\* the shapes a feature flag takes in the config file
FlagValues == {"absent", "true", "false", "objTrue", "objFalse", "objNoEnabled"}

\* getEnabledSteps(): the filter predicate for one step
StepEnabled(step, flags) ==
    IF step.required THEN TRUE
    ELSE IF step.flagKey # "none"
         THEN LET flag == flags[step.flagKey] IN
              IF flag \in {"objTrue", "objFalse"}      \* object with 'enabled'
              THEN flag = "objTrue"                    \* return flag.enabled
              ELSE flag \in {"true", "objNoEnabled"}   \* Boolean(flag)
         ELSE TRUE

\* Array.prototype.filter over this.steps
getEnabledSteps(flags) ==
    SelectSeq(steps, LAMBDA s : StepEnabled(s, flags))

enabledSteps == getEnabledSteps(featureFlags)

\* executeStep: the executors that run once per tag
needsTags(e) == e \in {"generateEndpoints", "generateDomainAPI", "generateReactQueryHooks"}


\* generateAll reads the step the loop is at
curStep == enabledSteps[gi]

\* readServerTags(server): the tags listed in the server's tags.ts
readServerTags(s) == tagsFile[s]

\* the flag shapes the orchestrator runs are started with
GenFlagValues == {"objTrue", "objFalse"}

\* the generator maps handed to the constructor: the CLI registers all
\* seven, test.js leaves generateTypes and generateDeepSchema null
GeneratorSets ==
    { Executors,
      Executors \ {"generateTypes", "generateDeepSchema"},
      Executors \ {"generateTags", "generateDomainAPI"} }

GenInit ==
    /\ featureFlags \in [FlagKeys -> GenFlagValues]
    /\ generators \in GeneratorSets
    /\ schemaTags \in [Servers -> 0..MaxTags]
    /\ tagsFile \in {[s \in Servers |-> 0], schemaTags}
    /\ gpc = "loop" /\ gi = 1 /\ srv = 0 /\ tg = 0
    /\ success = <<>> /\ failed = <<>> /\ log = <<>> /\ reached = <<>>
    /\ NotGenIdle

\* generateAll 157-164: no generator registered, warn and go on
GenSkipNoGenerator ==
    /\ gpc = "loop" /\ gi <= Len(enabledSteps)
    /\ curStep.executor \notin generators
    /\ reached' = Append(reached, curStep.executor)
    /\ gi' = gi + 1
    /\ UNCHANGED <<featureFlags, generators, schemaTags, tagsFile, gpc, srv, tg,
                   success, failed, log>>
    /\ UNCHANGED notGenVars

\* generateAll 157-158: call executeStep(step, servers)
GenBeginStep ==
    /\ gpc = "loop" /\ gi <= Len(enabledSteps)
    /\ curStep.executor \in generators
    /\ reached' = Append(reached, curStep.executor)
    /\ gpc' = "exec" /\ srv' = 1 /\ tg' = 1
    /\ UNCHANGED <<featureFlags, generators, schemaTags, tagsFile, gi,
                   success, failed, log>>
    /\ UNCHANGED notGenVars

\* executeStep 222-226: the server has no tags, continue with the next server
ExecNoTags ==
    /\ gpc = "exec" /\ srv <= NumServers
    /\ needsTags(curStep.executor) /\ readServerTags(srv) = 0
    /\ srv' = srv + 1 /\ tg' = 1
    /\ UNCHANGED <<featureFlags, generators, schemaTags, tagsFile, gpc, gi,
                   success, failed, log, reached>>
    /\ UNCHANGED notGenVars

\* executeStep 211: the loop over targetServers is over
ServersDone_First(s) == s > 1
ServersDone(s) == s > NumServers

\* the executor call the loops of executeStep are at
ExecReady ==
    /\ gpc = "exec" /\ srv <= NumServers /\ ~ServersDone(srv)
    /\ (needsTags(curStep.executor) => tg <= readServerTags(srv))

Invocation(outcome) ==
    [step |-> curStep.executor, server |-> srv,
     tag |-> IF needsTags(curStep.executor) THEN tg ELSE 0,
     outcome |-> outcome]

\* executeStep 230-238 / 242-250: executor.generate returns, the result is
\* written (generateTags writes the server's tags.ts)
ExecInvokeOk ==
    /\ ExecReady
    /\ log' = Append(log, Invocation("ok"))
    /\ tagsFile' = IF curStep.executor = "generateTags"
                   THEN [tagsFile EXCEPT ![srv] = schemaTags[srv]]
                   ELSE tagsFile
    /\ IF needsTags(curStep.executor) /\ tg < readServerTags(srv)
       THEN tg' = tg + 1 /\ srv' = srv
       ELSE tg' = 1 /\ srv' = srv + 1
    /\ UNCHANGED <<featureFlags, generators, schemaTags, gpc, gi,
                   success, failed, reached>>
    /\ UNCHANGED notGenVars

\* generateAll 170-173: a failed step ends the run iff it is required
AbortsRun_Never(step) == FALSE
AbortsRun_Always(step) == TRUE
AbortsRun(step) == step.required

\* the exception of the executor leaves generateAll: nothing is recorded and
\* no summary is returned
ExecInvokeThrow_m ==
    /\ ExecReady
    /\ log' = Append(log, Invocation("throw"))
    /\ gpc' = "thrown"
    /\ UNCHANGED <<featureFlags, generators, schemaTags, tagsFile, gi, srv, tg,
                   success, failed, reached>>
    /\ UNCHANGED notGenVars

\* executeStep 252-255 rethrows; generateAll 165-174 records the failure and
\* breaks when the step is required
ExecInvokeThrow ==
    /\ ExecReady
    /\ log' = Append(log, Invocation("throw"))
    /\ failed' = Append(failed, curStep.executor)
    /\ IF AbortsRun(curStep)
       THEN gpc' = "done" /\ gi' = gi
       ELSE gpc' = "loop" /\ gi' = gi + 1
    /\ UNCHANGED <<featureFlags, generators, schemaTags, tagsFile, srv, tg,
                   success, reached>>
    /\ UNCHANGED notGenVars

\* executeStep returned: generateAll 159-161
ExecComplete ==
    /\ gpc = "exec" /\ ServersDone(srv)
    /\ success' = Append(success, curStep.executor)
    /\ gpc' = "loop" /\ gi' = gi + 1
    /\ UNCHANGED <<featureFlags, generators, schemaTags, tagsFile, srv, tg,
                   failed, log, reached>>
    /\ UNCHANGED notGenVars

\* generateAll 177-194: the loop is over, the summary is returned
GenFinish ==
    /\ gpc = "loop" /\ gi > Len(enabledSteps)
    /\ gpc' = "done"
    /\ UNCHANGED <<featureFlags, generators, schemaTags, tagsFile, gi, srv, tg,
                   success, failed, log, reached>>
    /\ UNCHANGED notGenVars

GenNext ==
    \/ GenSkipNoGenerator
    \/ GenBeginStep
    \/ ExecNoTags
    \/ ExecInvokeOk
    \/ ExecInvokeThrow
    \/ ExecComplete
    \/ GenFinish

SpecGen == GenInit /\ [][GenNext]_vars


\* ------------------------------------------------------------------------
\* Orchestrator: properties
\* ------------------------------------------------------------------------
Range(q) == {q[k] : k \in DOMAIN q}

\* the executor of step e threw
Threw(e) == \E k \in DOMAIN log : log[k].step = e /\ log[k].outcome = "throw"

\* executeStep was called for step e and is over
Executed(e) == e \in Range(success) \cup Range(failed)

EnabledExecutors == {enabledSteps[k].executor : k \in DOMAIN enabledSteps}
LaterEnabled(e) == {t \in EnabledExecutors : StepIndex(t) > StepIndex(e)}

OkBefore(e, q) == {<<log[j].server, log[j].tag>> :
                      j \in {i \in 1..(q-1) : log[i].step = e /\ log[i].outcome = "ok"}}

\* every call a complete run of step e makes, given the tags.ts files
AllCalls(e) ==
    IF needsTags(e)
    THEN {<<s, t>> : s \in Servers, t \in 1..MaxTags} \cap
         {c \in Servers \X (1..MaxTags) : c[2] <= tagsFile[c[1]]}
    ELSE {<<s, 0>> : s \in Servers}

\* C2: the executor invocations follow the pipeline order (within a step:
\* server by server, tag by tag), and when the executor of a step is invoked
\* every earlier enabled step that has a generator is over: it failed, or it
\* has been invoked for every server and every tag of that server.
C2_Sequential ==
    /\ \A p, q \in DOMAIN log :
          p < q =>
            \/ StepIndex(log[p].step) < StepIndex(log[q].step)
            \/ /\ log[p].step = log[q].step
               /\ \/ log[p].server < log[q].server
                  \/ log[p].server = log[q].server /\ log[p].tag < log[q].tag
    /\ \A q \in DOMAIN log :
          \A e \in EnabledExecutors \cap generators :
             StepIndex(e) < StepIndex(log[q].step) =>
                \/ e \in Range(failed)
                \/ /\ e \in Range(success)
                   /\ e # "generateTypes" /\ e # "generateTags" =>
                         AllCalls(e) \subseteq OkBefore(e, q)
                   /\ e \in {"generateTypes", "generateTags"} =>
                         {<<s, 0>> : s \in Servers} \subseteq OkBefore(e, q)

\* hooks are generated after the domain API was generated for two servers
\* with two tags each
C2_Witness ==
    /\ \E q \in DOMAIN log : log[q].step = "generateReactQueryHooks"
    /\ "generateDomainAPI" \in Range(success)
    /\ \A s \in Servers : tagsFile[s] = MaxTags
    /\ Cardinality(OkBefore("generateDomainAPI", Len(log) + 1)) = NumServers * MaxTags

\* generateAll is an async function that the event loop runs to its return:
\* every await of an executor call ends, by a value or by an exception
SpecGenFair == SpecGen /\ WF_vars(GenNext)

\* executeStep was called for step e (the step was reached and has a generator)
Called(e) == e \in Range(reached) /\ e \in generators

\* the call of executeStep for step e is still running
Running(e) == gpc = "exec" /\ curStep.executor = e

\* how often a list names step e
Occurrences(list, e) == Cardinality({k \in DOMAIN list : list[k] = e})

RequiredBefore(e) ==
    {steps[k].executor : k \in {j \in 1..Len(steps) :
                                  steps[j].required /\ j < StepIndex(e)}}

\* C27 as stated: the executor of a step is invoked only when every
\* required step before it has completed successfully; a required step
\* that threw or that has no generator stops the run.
C27_RequiredSucceeded ==
    \A q \in DOMAIN log :
        \A e \in RequiredBefore(log[q].step) : e \in Range(success)

\* C27, amended: the executor of a step is invoked only when no required
\* step before it has failed: every required step before it that has a
\* generator has completed successfully, and a required step without a
\* generator was passed over with a warning and does not stop the run.
C27_RequiredNotFailed ==
    \A q \in DOMAIN log :
        \A e \in RequiredBefore(log[q].step) :
            /\ e \notin Range(failed)
            /\ e \in generators => e \in Range(success)
            /\ e \notin generators => e \in Range(reached) /\ ~Executed(e)

\* no generator is registered for generateTypes, generateTags succeeded and
\* the executor of an optional step has been invoked
C27_Witness ==
    /\ "generateTypes" \notin generators
    /\ "generateTags" \in Range(success)
    /\ \E q \in DOMAIN log : log[q].step = "generateValidatedTypes"


\* ========================================================================
\* BRACE SCANNER  (DeepSchemaTypeExtractor.extractSchemasWithValidatedLogic)
\* ========================================================================
MaxToks == 4
MaxCoreToks == 7

\* the pieces the scanned texts are made of; a text is the characters that
\* follow the opening brace of a schema ("bt" stands for the backtick)
Fragments == { <<"{">>, <<"}">>, <<"\"">>, <<"'">>, <<"\\">>,
               <<"/", "/">>, <<"/", "*">>, <<"*", "/">>, <<"\n">> }

\* the pieces of the longer texts
CoreFragments == { <<"}">>, <<"\"">>, <<"/", "/">>, <<"/", "*">>, <<"*", "/">>, <<"\n">> }

RECURSIVE Flatten(_)
Flatten(fs) == IF fs = <<>> THEN <<>> ELSE Head(fs) \o Flatten(Tail(fs))

\* part_002:198-202: the scanner state at the character after the opening brace
ScanStart == [pos |-> 1, braceCount |-> 1, inString |-> "none",
              inComment |-> "none", escapeNext |-> FALSE]

\* part_002:232: a line comment ends at the newline only while the scanner
\* is in a line comment
LineCommentEnds(inC, char) == inC = "line" /\ char = "\n"

\* part_002:215: the characters that open and close a string
IsQuote(char) == char \in {"\"", "'", "bt"}

\* part_002:205-249: one iteration of the scanning loop
ScanStep(t, st) ==
    LET char == t[st.pos]
        nextChar == IF st.pos < Len(t) THEN t[st.pos + 1] ELSE ""
        \* 210-222: string handling, skipped inside a comment
        esc1 == IF st.inComment # "none" THEN st.escapeNext
                ELSE IF st.escapeNext THEN FALSE
                ELSE char = "\\"
        str1 == IF st.inComment # "none" \/ st.escapeNext \/ char = "\\"
                THEN st.inString
                ELSE IF IsQuote(char)
                     THEN IF st.inString = "none" THEN char
                          ELSE IF st.inString = char THEN "none"
                          ELSE st.inString
                     ELSE st.inString
        \* 225-238: comment handling, skipped inside a string
        opensLine  == str1 = "none" /\ char = "/" /\ nextChar = "/"
        opensBlock == str1 = "none" /\ ~opensLine /\ char = "/" /\ nextChar = "*"
        endsLine   == str1 = "none" /\ ~opensLine /\ ~opensBlock
                      /\ LineCommentEnds(st.inComment, char)
        endsBlock  == str1 = "none" /\ ~opensLine /\ ~opensBlock /\ ~endsLine
                      /\ st.inComment = "block" /\ char = "*" /\ nextChar = "/"
        cmt1 == IF opensLine THEN "line"
                ELSE IF opensBlock THEN "block"
                ELSE IF endsLine \/ endsBlock THEN "none"
                ELSE st.inComment
        skip == IF opensLine \/ opensBlock \/ endsBlock THEN 1 ELSE 0
        \* 241-247: brace counting outside strings and comments
        bc1 == IF str1 = "none" /\ cmt1 = "none"
               THEN IF char = "{" THEN st.braceCount + 1
                    ELSE IF char = "}" THEN st.braceCount - 1
                    ELSE st.braceCount
               ELSE st.braceCount
    IN [pos |-> st.pos + skip + 1, braceCount |-> bc1, inString |-> str1,
        inComment |-> cmt1, escapeNext |-> esc1]

\* part_002:204: the loop condition
ScanGoesOn(t, st) == st.pos <= Len(t) /\ st.braceCount > 0

RECURSIVE ScanRun(_, _)
ScanRun(t, st) == IF ScanGoesOn(t, st) THEN ScanRun(t, ScanStep(t, st)) ELSE st

\* part_002:252-259: the index of the matching brace, 0 when none is found
ScanOutcome(st) == IF st.braceCount = 0 THEN st.pos - 1 ELSE 0

ScanResult(t) == ScanOutcome(ScanRun(t, ScanStart))

scanState == [pos |-> pos, braceCount |-> braceCount, inString |-> inString,
              inComment |-> inComment, escapeNext |-> escapeNext]

\* ---- the lexical structure the scanner is meant to respect ----
\* class of every character: "code", "quote", "str" (inside a string
\* literal), "delim" (comment delimiter), "cmt" (inside a comment)
RECURSIVE Lex(_, _, _, _, _)
Lex(t, i, mode, esc, acc) ==
    IF i > Len(t) THEN [classes |-> acc, mode |-> mode]
    ELSE LET c == t[i]
             n == IF i < Len(t) THEN t[i + 1] ELSE ""
         IN
         IF mode = "normal" THEN
            IF c \in {"\"", "'", "bt"} THEN Lex(t, i + 1, c, FALSE, Append(acc, "quote"))
            ELSE IF c = "/" /\ n = "/" THEN Lex(t, i + 2, "line", FALSE, acc \o <<"delim", "delim">>)
            ELSE IF c = "/" /\ n = "*" THEN Lex(t, i + 2, "block", FALSE, acc \o <<"delim", "delim">>)
            ELSE Lex(t, i + 1, "normal", FALSE, Append(acc, "code"))
         ELSE IF mode = "line" THEN
            IF c = "\n" THEN Lex(t, i + 1, "normal", FALSE, Append(acc, "delim"))
            ELSE Lex(t, i + 1, "line", FALSE, Append(acc, "cmt"))
         ELSE IF mode = "block" THEN
            IF c = "*" /\ n = "/" THEN Lex(t, i + 2, "normal", FALSE, acc \o <<"delim", "delim">>)
            ELSE Lex(t, i + 1, "block", FALSE, Append(acc, "cmt"))
         ELSE \* inside the string literal opened by the quote held in mode
            IF esc THEN Lex(t, i + 1, mode, FALSE, Append(acc, "str"))
            ELSE IF c = "\\" THEN Lex(t, i + 1, mode, TRUE, Append(acc, "str"))
            ELSE IF c = mode THEN Lex(t, i + 1, "normal", FALSE, Append(acc, "quote"))
            ELSE Lex(t, i + 1, mode, FALSE, Append(acc, "str"))

Lexed(t) == Lex(t, 1, "normal", FALSE, <<>>)

\* texts of a declaration file: every string literal and block comment is
\* closed, and a backslash occurs only inside a literal or a comment
WellFormed(t) ==
    LET lx == Lexed(t) IN
    /\ lx.mode \in {"normal", "line"}
    /\ \A i \in 1..Len(t) : t[i] = "\\" => lx.classes[i] \in {"str", "cmt"}

ScanInit ==
    /\ \/ \E n \in 0..MaxToks : \E fs \in [1..n -> Fragments] :
             /\ text = Flatten(fs)
             /\ WellFormed(text)
       \/ \E n \in (MaxToks + 1)..MaxCoreToks : \E fs \in [1..n -> CoreFragments] :
             /\ text = Flatten(fs)
             /\ WellFormed(text)
    /\ pos = 1 /\ braceCount = 1 /\ inString = "none" /\ inComment = "none"
    /\ escapeNext = FALSE /\ spc = "scan"
    /\ NotScanIdle

\* one iteration of the while loop
ScanIterate ==
    /\ spc = "scan" /\ ScanGoesOn(text, scanState)
    /\ LET st == ScanStep(text, scanState) IN
          /\ pos' = st.pos /\ braceCount' = st.braceCount
          /\ inString' = st.inString /\ inComment' = st.inComment
          /\ escapeNext' = st.escapeNext
    /\ UNCHANGED <<text, spc>>
    /\ UNCHANGED notScanVars

\* 252-256: the loop ended with braceCount = 0, the schema body is stored
ScanFound ==
    /\ spc = "scan" /\ ~ScanGoesOn(text, scanState) /\ braceCount = 0
    /\ spc' = "found"
    /\ UNCHANGED <<text, pos, braceCount, inString, inComment, escapeNext>>
    /\ UNCHANGED notScanVars

\* 257-259: the text is exhausted, brace matching failed
ScanNotFound ==
    /\ spc = "scan" /\ ~ScanGoesOn(text, scanState) /\ braceCount # 0
    /\ spc' = "notfound"
    /\ UNCHANGED <<text, pos, braceCount, inString, inComment, escapeNext>>
    /\ UNCHANGED notScanVars

ScanNext == ScanIterate \/ ScanFound \/ ScanNotFound

SpecScan == ScanInit /\ [][ScanNext]_vars

\* ---- properties ----
ScanOver == spc \in {"found", "notfound"}

\* the text with the braces inside string literals replaced by "x"
BlankLiteralBraces(t) ==
    LET cl == Lexed(t).classes IN
    [i \in 1..Len(t) |-> IF cl[i] = "str" /\ t[i] \in {"{", "}"} THEN "x" ELSE t[i]]

\* the text with every character inside a comment replaced by "x"
BlankComments(t) ==
    LET cl == Lexed(t).classes IN
    [i \in 1..Len(t) |-> IF cl[i] = "cmt" THEN "x" ELSE t[i]]

\* C3: the closing brace the scanner matches is the one it matches in the
\* text whose string literals have no braces.
C3_LiteralBracesOpaque ==
    ScanOver => ScanOutcome(scanState) = ScanResult(BlankLiteralBraces(text))

\* C4: the closing brace the scanner matches is the one it matches in the
\* text whose comments hold nothing but inert characters.
C4_CommentsOpaque ==
    ScanOver => ScanOutcome(scanState) = ScanResult(BlankComments(text))


\* ========================================================================
\* NESTED SCHEMA WALKER  (DeepSchemaTypeExtractor.processNestedSchemas and
\* generateConsolidatedDeepSchemaFile)
\* ========================================================================
NumSchemas == 8

\* part_002:460
maxDepth == 5

Schemas == 1..NumSchemas

\* the references a schema body can hold, in the order of its properties:
\* none, the next schema, or the next schema and the first one (a cycle).
\* The last schema refers to a name that is not defined.
RefChoice(i, c) == IF c = 1 THEN <<>> ELSE IF c = 2 THEN <<i + 1>> ELSE <<i + 1, 1>>

\* part_002:461: the recursion is cut off beyond the cap
TooDeep_m(depth) == depth > maxDepth + 1
TooDeep(depth) == depth > maxDepth

\* part_002:469: a name that was processed before is skipped
AlreadyProcessed_m(name, processed) == name \in processed /\ name > 2
AlreadyProcessed(name, processed) == name \in processed

\* part_002:459-494, with this.processedTypes threaded through as
\* acc.processed and the returned nestedTypes accumulated in acc.types
RECURSIVE processNestedSchemas(_, _, _, _)
RECURSIVE WalkLoop(_, _, _, _, _)
processNestedSchemas(all, nestedSchemas, depth, acc) ==
    IF TooDeep(depth)
    THEN [acc EXCEPT !.warned = TRUE]
    ELSE WalkLoop(all, nestedSchemas, 1, depth, acc)

WalkLoop(all, names, k, depth, acc) ==
    IF k > Len(names) THEN acc
    ELSE LET schemaName == names[k] IN
         IF AlreadyProcessed(schemaName, acc.processed)
         THEN WalkLoop(all, names, k + 1, depth, acc)
         ELSE LET a1 == [acc EXCEPT !.processed = @ \cup {schemaName}] IN
              IF schemaName \in DOMAIN all
              THEN LET a2 == [a1 EXCEPT !.types =
                                 Append(@, [schemaName |-> schemaName, depth |-> depth])]
                       a3 == IF all[schemaName] # <<>>
                             THEN processNestedSchemas(all, all[schemaName], depth + 1, a2)
                             ELSE a2
                   IN WalkLoop(all, names, k + 1, depth, a3)
              ELSE WalkLoop(all, names, k + 1, depth, a1)

\* part_002:883-884: the root and the names of its nested types are added to
\* globalProcessedTypes
MarkProcessed_m(global, schemaName, types) == global \cup {schemaName}
MarkProcessed(global, schemaName, types) ==
    global \cup {schemaName} \cup {types[j].schemaName : j \in DOMAIN types}

WalkInit ==
    /\ \E c \in [Schemas -> 1..3] : refs = [i \in Schemas |-> RefChoice(i, c[i])]
    /\ roots = [i \in Schemas |-> i]
    /\ rootIdx = 1
    /\ globalProcessedTypes = {} /\ allProcessedSchemas = <<>>
    /\ warned = FALSE /\ again = <<>> /\ wpc = "run"
    /\ NotWalkIdle

\* part_002:861-893: one iteration of the loop over schemaNames
ProcessRoot ==
    /\ wpc = "run" /\ rootIdx <= Len(roots)
    /\ LET schemaName == roots[rootIdx]
           \* 868: processedTypes starts as a copy of globalProcessedTypes
           start == [types |-> <<>>, processed |-> globalProcessedTypes, warned |-> warned]
           \* 871, 880: the root body is extracted, its references are walked
           res == processNestedSchemas(refs, refs[schemaName], 0, start)
       IN /\ globalProcessedTypes' =
                MarkProcessed(globalProcessedTypes, schemaName, res.types)
          /\ allProcessedSchemas' =
                Append(allProcessedSchemas,
                       [schemaName |-> schemaName, nestedTypes |-> res.types])
          /\ warned' = res.warned
    /\ rootIdx' = rootIdx + 1
    /\ UNCHANGED <<refs, roots, again, wpc>>
    /\ UNCHANGED notWalkVars

\* part_002:895: every root was processed
WalkFinish ==
    /\ wpc = "run" /\ rootIdx > Len(roots)
    /\ wpc' = "done"
    /\ UNCHANGED <<refs, roots, rootIdx, globalProcessedTypes, allProcessedSchemas,
                   warned, again>>
    /\ UNCHANGED notWalkVars

\* processNestedSchemas called once more, on the references of a schema
\* that are all in the processed set
WalkAgain ==
    /\ wpc = "done" /\ again = <<>>
    /\ \E r \in Schemas : \E d \in 0..maxDepth :
          /\ refs[r] # <<>>
          /\ \A j \in DOMAIN refs[r] : refs[r][j] \in globalProcessedTypes
          /\ LET res == processNestedSchemas(refs, refs[r], d,
                           [types |-> <<>>, processed |-> globalProcessedTypes,
                            warned |-> FALSE])
             IN again' = <<[names |-> refs[r], types |-> res.types,
                            processed |-> res.processed]>>
    /\ UNCHANGED <<refs, roots, rootIdx, globalProcessedTypes, allProcessedSchemas,
                   warned, wpc>>
    /\ UNCHANGED notWalkVars

WalkNext == ProcessRoot \/ WalkFinish \/ WalkAgain

SpecWalk == WalkInit /\ [][WalkNext]_vars

\* the loop over the roots is not abandoned half way
SpecWalkFair == SpecWalk /\ WF_vars(ProcessRoot) /\ WF_vars(WalkFinish)

\* ---- properties ----
\* every entry recorded so far: the roots (depth 0) and their nested types
NestedEntries ==
    UNION { {[root |-> r, name |-> allProcessedSchemas[r].nestedTypes[j].schemaName,
              depth |-> allProcessedSchemas[r].nestedTypes[j].depth, at |-> j]
                : j \in DOMAIN allProcessedSchemas[r].nestedTypes}
            : r \in DOMAIN allProcessedSchemas }

\* C5: no schema is recorded deeper than the cap, and the run over all roots
\* comes to its end whatever the graph, cyclic or not.
C5_DepthCapped == \A e \in NestedEntries : e.depth <= maxDepth
C5_Terminates == []C5_DepthCapped /\ <>(wpc = "done")

\* a cyclic graph whose chain is longer than the cap: the walk was cut off
\* with a warning, a schema was recorded at the cap, and the run ended
C5_Witness ==
    /\ wpc = "done" /\ warned
    /\ \E e \in NestedEntries : e.depth = maxDepth
    /\ \E i \in Schemas : Len(refs[i]) = 2

\* the times schema x had its properties extracted: as a root and as a
\* nested schema
Extractions(x) ==
    Cardinality({r \in DOMAIN allProcessedSchemas : allProcessedSchemas[r].schemaName = x})
    + Cardinality({e \in NestedEntries : e.name = x})

C7_Idempotent ==
    again # <<>> =>
        /\ again[1].types = <<>>
        /\ again[1].processed = globalProcessedTypes

C7_Witness ==
    /\ again # <<>>
    /\ Len(again[1].names) = 2
    /\ again[1].types = <<>>


\* ========================================================================
\* RESPONSE AND RO RESOLUTION  (TypeGenerator.processSchema, step 7)
\* ========================================================================
MaxResponses == 2

\* Schema names are sequences of words, so that one name can be the tail of
\* another: <<"Admin","User","Response">> is the text AdminUserResponse.
UserResponse      == <<"User", "Response">>
AdminUserResponse == <<"Admin", "User", "Response">>
ErrorResponse     == <<"Error", "Response">>
User              == <<"User">>
Page              == <<"Page">>
NoName            == <<>>

ResponseNames == {UserResponse, AdminUserResponse, ErrorResponse}
DataNames == {User, Page}

StatusCodes == {"200", "204", "400", "default"}

\* The text of an operation's responses block, as the tokens the regular
\* expressions of processSchema look for:
\*   status(c)    c: {
\*   jsonRef(n)   'application/json': components['schemas']['n']
\*   jsonObj      'application/json': {
\*   dataRef(n)   data?: components['schemas']['n']
\*   codeNumber   code: number
\*   never        content?: never
\*   other        anything else
Tok(k, v) == [k |-> k, v |-> v]

\* the content of one response: its tokens after the status key
ContentToks(shape, name) ==
    CASE shape = "named"      -> <<Tok("jsonRef", name)>>
      [] shape = "inlineData" -> <<Tok("jsonObj", NoName), Tok("codeNumber", NoName), Tok("dataRef", name)>>
      [] shape = "inlineCode" -> <<Tok("jsonObj", NoName), Tok("codeNumber", NoName)>>
      [] shape = "never"      -> <<Tok("never", NoName)>>
      [] OTHER                -> <<Tok("other", NoName)>>

\* the responses an operation can declare: status code, shape, schema name
\* (a 204 response has no content)
ResponseEntries ==
    {[status |-> c, shape |-> "named", name |-> n] :
         c \in StatusCodes \ {"204"}, n \in ResponseNames \cup {User}}
    \cup {[status |-> c, shape |-> "inlineData", name |-> n] :
              c \in StatusCodes \ {"204"}, n \in DataNames}
    \cup {[status |-> c, shape |-> sh, name |-> NoName] :
              c \in StatusCodes \ {"204"}, sh \in {"inlineCode", "never", "other"}}
    \cup {[status |-> "204", shape |-> "never", name |-> NoName]}

RECURSIVE EntriesToToks(_)
EntriesToToks(es) ==
    IF es = <<>> THEN <<>>
    ELSE <<Tok("status", Head(es).status)>>
         \o ContentToks(Head(es).shape, Head(es).name)
         \o EntriesToToks(Tail(es))

\* ---- the regular expressions, on tokens ----
\* TypeGenerator.js:156 the status keys 20\d and default
Is20x(c) == c \in {"200", "204"}

\* least index from `from` on whose element is one of ok, 0 when none
FirstFrom(toks, from, ok) ==
    IF \E i \in from..Len(toks) : toks[i] \in ok
    THEN CHOOSE i \in from..Len(toks) :
            toks[i] \in ok /\ \A j \in from..(i - 1) : toks[j] \notin ok
    ELSE 0

EndsWithResponse(n) == Len(n) >= 2 /\ n[Len(n)] = "Response"

\* the tokens of kind k among toks
OfKind(toks, k) == {toks[i] : i \in {j \in DOMAIN toks : toks[j].k = k}}

\* the status keys of toks whose code is one of codes
StatusKeys(toks, codes) == {t \in OfKind(toks, "status") : t.v \in codes}

Codes20x == {c \in StatusCodes : Is20x(c)}

\* TypeGenerator.js:155-157: a status key 20\d or default, then, after any
\* text, an application/json reference to a schema named *Response
MatchNamedResponse(toks) ==
    LET i == FirstFrom(toks, 1, StatusKeys(toks, Codes20x \cup {"default"}))
        j == IF i = 0 THEN 0
             ELSE FirstFrom(toks, i + 1,
                            {t \in OfKind(toks, "jsonRef") : EndsWithResponse(t.v)})
    IN IF j = 0 THEN NoName ELSE toks[j].v

\* a status key with one of codes, then an inline application/json object,
\* then a token of kind last; the index of that token, 0 when no match
MatchInline(toks, codes, last) ==
    LET i == FirstFrom(toks, 1, StatusKeys(toks, codes))
        j == IF i = 0 THEN 0 ELSE FirstFrom(toks, i + 1, OfKind(toks, "jsonObj"))
    IN IF j = 0 THEN 0 ELSE FirstFrom(toks, j + 1, OfKind(toks, last))

\* TypeGenerator.js:188-196
MatchInlineData(toks) ==
    LET a == MatchInline(toks, Codes20x, "dataRef")
        b == MatchInline(toks, {"default"}, "dataRef")
    IN IF a # 0 THEN toks[a].v ELSE IF b # 0 THEN toks[b].v ELSE NoName

\* TypeGenerator.js:206-214
MatchInlineCode(toks) ==
    \/ MatchInline(toks, Codes20x, "codeNumber") # 0
    \/ MatchInline(toks, {"default"}, "codeNumber") # 0

\* TypeGenerator.js:220
MatchNoContent204(toks) == \E i \in DOMAIN toks : toks[i].k = "status" /\ toks[i].v = "204"

\* TypeGenerator.js:225-232
MatchContentNever(toks) ==
    LET a == FirstFrom(toks, 1, StatusKeys(toks, Codes20x))
        b == FirstFrom(toks, 1, StatusKeys(toks, {"default"}))
    IN \/ a # 0 /\ FirstFrom(toks, a + 1, OfKind(toks, "never")) # 0
       \/ b # 0 /\ FirstFrom(toks, b + 1, OfKind(toks, "never")) # 0

IsSuffix(suf, n) ==
    /\ Len(suf) <= Len(n)
    /\ \A i \in 1..Len(suf) : suf[i] = n[Len(n) - Len(suf) + i]

\* TypeGenerator.js:167-177: the first place of the schemas block where the
\* text "<responseSchemaName>: {" occurs, which is the first definition
\* whose name ends with that text; its data field, NoName when it has none
DataFieldOf(defs, responseSchemaName) ==
    LET d == FirstFrom(defs, 1,
                       {defs[k] : k \in {j \in DOMAIN defs :
                                            IsSuffix(responseSchemaName, defs[j].name)}})
    IN IF d = 0 THEN NoName ELSE defs[d].data

Alias(kind, form, name) == [kind |-> kind, form |-> form, name |-> name]

\* TypeGenerator.js:154-244: the aliases pushed for the operation and the
\* number of warnings logged
ResolveResponse(toks, defs) ==
    LET named == MatchNamedResponse(toks)
        inl == MatchInlineData(toks)
    IN
    IF named # NoName
    THEN [types |-> <<Alias("Response", "named", named)>>
                    \o (IF DataFieldOf(defs, named) # NoName
                        THEN <<Alias("RO", "named", DataFieldOf(defs, named))>>
                        ELSE <<>>),
          warnings |-> 0]
    ELSE IF inl # NoName
    THEN [types |-> <<Alias("Response", "adhocData", inl), Alias("RO", "named", inl)>>,
          warnings |-> 0]
    ELSE IF MatchInlineCode(toks)
    THEN [types |-> <<Alias("Response", "adhocCode", NoName)>>, warnings |-> 0]
    ELSE IF MatchNoContent204(toks)
    THEN [types |-> <<Alias("Response", "void", NoName)>>, warnings |-> 0]
    ELSE IF MatchContentNever(toks)
    THEN [types |-> <<Alias("Response", "void", NoName)>>, warnings |-> 0]
    ELSE [types |-> <<Alias("Response", "any", NoName)>>, warnings |-> 1]

\* the schemas block: the three Response schemas in one of two orders, each
\* with or without a data field
SchemaOrders == { <<AdminUserResponse, ErrorResponse, UserResponse>>,
                  <<UserResponse, ErrorResponse, AdminUserResponse>> }

RespInit ==
    /\ \E n \in 1..MaxResponses : \E es \in [1..n -> ResponseEntries] :
          /\ \A i, j \in 1..n : i # j => es[i].status # es[j].status
          /\ opToks = [entries |-> es, toks |-> EntriesToToks(es)]
    /\ \E ord \in SchemaOrders : \E data \in [1..3 -> DataNames \cup {NoName}] :
          schemaDefs = [i \in 1..3 |-> [name |-> ord[i], data |-> data[i]]]
    /\ generatedTypes = <<>> /\ warnings = 0 /\ rpc = "ready"
    /\ NotRespIdle

\* processSchema 154-244 for the operation whose body was found
ProcessResponses ==
    /\ rpc = "ready"
    /\ LET res == ResolveResponse(opToks.toks, schemaDefs) IN
          /\ generatedTypes' = res.types
          /\ warnings' = res.warnings
    /\ rpc' = "done"
    /\ UNCHANGED <<opToks, schemaDefs>>
    /\ UNCHANGED notRespVars

RespNext == ProcessResponses

SpecResp == RespInit /\ [][RespNext]_vars


\* ---- properties ----
ResponseAliases == {i \in DOMAIN generatedTypes : generatedTypes[i].kind = "Response"}
ROAliases == {i \in DOMAIN generatedTypes : generatedTypes[i].kind = "RO"}
TheResponse == generatedTypes[CHOOSE i \in ResponseAliases : TRUE]

\* the responses of the operation that count: 2xx and default
Entries == {opToks.entries[i] : i \in DOMAIN opToks.entries}
OkEntries == {e \in Entries : Is20x(e.status) \/ e.status = "default"}

RuleNamed == \E e \in OkEntries : e.shape = "named" /\ EndsWithResponse(e.name)
RuleInlineData == \E e \in OkEntries : e.shape = "inlineData"
RuleInlineCode == \E e \in OkEntries : e.shape = "inlineCode"
RuleVoid == (\E e \in Entries : e.status = "204") \/ (\E e \in OkEntries : e.shape = "never")

\* C8: exactly one Response alias is emitted, by the first rule that applies
\* to the 2xx/default responses: named *Response schema, inline data,
\* inline code/message, void, else the fallback type with one warning.
C8_ResponseRuleOrder ==
    rpc = "done" =>
        /\ Cardinality(ResponseAliases) = 1
        /\ LET r == TheResponse IN
           IF RuleNamed
           THEN /\ r.form = "named" /\ warnings = 0
                /\ \E e \in OkEntries : e.shape = "named" /\ e.name = r.name
           ELSE IF RuleInlineData
           THEN /\ r.form = "adhocData" /\ warnings = 0
                /\ \E e \in OkEntries : e.shape = "inlineData" /\ e.name = r.name
           ELSE IF RuleInlineCode THEN r.form = "adhocCode" /\ warnings = 0
           ELSE IF RuleVoid THEN r.form = "void" /\ warnings = 0
           ELSE r.form = "any" /\ warnings = 1

\* C9: the schema a Response alias refers to is referenced by a 2xx or
\* default response of the operation.
C9_ResponseFrom2xx ==
    rpc = "done" =>
        \A i \in ResponseAliases :
            generatedTypes[i].form \in {"named", "adhocData"} =>
                \E e \in OkEntries : e.name = generatedTypes[i].name

\* the data field of the schema that is named n
OwnDataField(n) ==
    LET d == CHOOSE k \in DOMAIN schemaDefs : schemaDefs[k].name = n
    IN schemaDefs[d].data

\* C10: an RO alias refers to the data field of the named Response schema's
\* own body, or to the data field of an inline response, and then the
\* Response alias is the ad-hoc shape; an operation whose only response is
\* 204 gets Response = void and no RO.
C10_ROOnlyFromData ==
    rpc = "done" =>
        /\ \A i \in ROAliases :
              LET ro == generatedTypes[i]
                  r == TheResponse
              IN \/ /\ r.form = "named"
                    /\ r.name \in ResponseNames
                    /\ OwnDataField(r.name) = ro.name
                 \/ /\ r.form = "adhocData" /\ r.name = ro.name
                    /\ \E e \in Entries : e.shape = "inlineData" /\ e.name = ro.name
        /\ (\A e \in Entries : e.status = "204") =>
              /\ TheResponse.form = "void"
              /\ ROAliases = {}


\* ========================================================================
\* PARAMETER GROUPS  (TypeGenerator.processSchema, step 5)
\* ========================================================================
\* the parameter groups of an operation, in the order of the declaration file
GroupNames == <<"query", "header", "path", "cookie">>

\* How a group is written in the parameters block:
\*   typed  "never"   name?: never;
\*          "empty"   name?: {};
\*          "object"  name?: { ...properties on lines of their own... }
\*          "absent"  the group is not written
\*   body   what the text of an object group's properties holds: "plain"
\*          neither of the texts tested at line 127, "never" the text never
\*          (a property typed Record<string, never>), "empty" the text {}
GroupShapes ==
    {[typed |-> t, optional |-> o, body |-> "plain"] :
         t \in {"never", "empty"}, o \in BOOLEAN}
    \cup {[typed |-> "object", optional |-> o, body |-> b] :
              o \in BOOLEAN, b \in {"plain", "never", "empty"}}
    \cup {[typed |-> "absent", optional |-> FALSE, body |-> "plain"]}

\* the groups that are written, with their names
Written(shapes) ==
    SelectSeq([i \in 1..Len(GroupNames) |->
                  [name |-> GroupNames[i], typed |-> shapes[i].typed,
                   optional |-> shapes[i].optional, body |-> shapes[i].body]],
              LAMBDA g : g.typed # "absent")

\* TypeGenerator.js:121: the end of the match of paramTypeRegex that starts at
\* group k: the first group from k on that closes with a brace on a line of
\* its own, 0 when there is none
MatchEnd(groups, k) ==
    IF \E j \in k..Len(groups) : groups[j].typed = "object"
    THEN CHOOSE j \in k..Len(groups) :
            groups[j].typed = "object" /\ \A q \in k..(j - 1) : groups[q].typed # "object"
    ELSE 0

\* TypeGenerator.js:127: the matched text holds neither never nor {}
KeepsMatch(groups, k, e) ==
    \A q \in k..e : /\ groups[q].typed = "object"
                    /\ groups[q].body = "plain"

\* TypeGenerator.js:124-134: the loop over the matches of paramTypeRegex
RECURSIVE CollectParams(_, _, _)
CollectParams(groups, k, parts) ==
    IF k > Len(groups) THEN parts
    ELSE IF groups[k].typed = "never"
         THEN CollectParams(groups, k + 1, parts)   \* no brace after the colon
         ELSE LET e == MatchEnd(groups, k) IN
              IF e = 0 THEN parts
              ELSE CollectParams(groups, e + 1,
                       IF KeepsMatch(groups, k, e)
                       THEN Append(parts, [name |-> groups[k].name,
                                           optional |-> groups[k].optional])
                       ELSE parts)

ParInit ==
    /\ \E shapes \in [1..Len(GroupNames) -> GroupShapes] : parameters = Written(shapes)
    /\ paramsParts = <<>> /\ ppc = "ready"
    /\ NotParIdle

\* TypeGenerator.js:115-143
ProcessParams ==
    /\ ppc = "ready"
    /\ paramsParts' = CollectParams(parameters, 1, <<>>)
    /\ ppc' = "done"
    /\ UNCHANGED parameters
    /\ UNCHANGED notParVars

ParNext == ProcessParams

SpecParams == ParInit /\ [][ParNext]_vars

\* ---- properties ----
\* TypeGenerator.js:139: the Params alias is pushed when there is a part
ParamsEmitted == paramsParts # <<>>

\* the groups that are real: typed neither never nor {}
RealGroups ==
    LET real == SelectSeq(parameters, LAMBDA g : g.typed = "object")
    IN [i \in 1..Len(real) |-> [name |-> real[i].name, optional |-> real[i].optional]]

\* C11: the Params alias is emitted exactly when the operation has a real
\* parameter group, and it lists exactly the real groups, each optional
\* exactly when the source marks it optional.
C11_ParamsRealGroups ==
    ppc = "done" =>
        /\ ParamsEmitted <=> (RealGroups # <<>>)
        /\ paramsParts = RealGroups


\* ========================================================================
\* OPERATION EXTRACTION  (SchemaParser.extractOperation, extractAllOperations)
\* ========================================================================
\* SchemaParser.js:194: the methods extractAllOperations asks for; the keys
\* of a path item are written in this order
methods == <<"get", "post", "put", "patch", "delete", "options", "head", "trace">>

\* SchemaParser.js:169: the method names of the lookahead
LookaheadMethods == {"get", "post", "put", "patch", "delete"}

\* How a method is written in the path item:
\*   "absent"  not written
\*   "never"   get?: never
\*   "ref"     get: operations['id']
\*   "flat"    get: { ... }   with no block closing right before its own
\*   "nested"  get: { ... { ... } }  the closing brace of an inner block is
\*             followed by the closing brace of the method block
MethodForms == {"absent", "never", "ref", "flat", "nested"}

IsInline(form) == form \in {"flat", "nested"}

\* the key written after the one at index j, "" at the end of the path item
NextKey(item, j) ==
    IF \E q \in (j + 1)..Len(methods) : item[q] # "absent"
    THEN methods[CHOOSE q \in (j + 1)..Len(methods) :
                    item[q] # "absent" /\ \A p \in (j + 1)..(q - 1) : item[p] = "absent"]
    ELSE ""

\* SchemaParser.js:169-170: methodRegex finds `method: {`, then the first
\* closing brace on a line of its own that is followed by a method name of
\* the lookahead or by another closing brace
MethodMatches(item, k) ==
    /\ IsInline(item[k])
    /\ \/ item[k] = "nested"
       \/ \E j \in k..Len(methods) :
             /\ IsInline(item[j])
             /\ \/ j > k /\ item[j] = "nested"
                \/ NextKey(item, j) \in LookaheadMethods

\* SchemaParser.js:162-185: TRUE when the result is not null
extractOperation(item, k) == MethodMatches(item, k)

\* SchemaParser.js:193-205: the methods of the operations pushed, in order
RECURSIVE extractAllOperations(_, _)
extractAllOperations(item, k) ==
    IF k > Len(methods) THEN <<>>
    ELSE (IF extractOperation(item, k) THEN <<methods[k]>> ELSE <<>>)
         \o extractAllOperations(item, k + 1)

OpsInit ==
    /\ pathItem \in [1..Len(methods) -> MethodForms]
    /\ extracted = <<>> /\ xpc = "ready"
    /\ NotOpsIdle

ExtractAll ==
    /\ xpc = "ready"
    /\ extracted' = extractAllOperations(pathItem, 1)
    /\ xpc' = "done"
    /\ UNCHANGED pathItem
    /\ UNCHANGED notOpsVars

OpsNext == ExtractAll

SpecOps == OpsInit /\ [][OpsNext]_vars

\* ---- properties ----
\* C12: every method under which the path item references an operation as
\* operations['id'] is extracted (not null), once.
C12_ReferencedExtractedOnce ==
    xpc = "done" =>
        \A k \in 1..Len(methods) :
            pathItem[k] = "ref" =>
                /\ extractOperation(pathItem, k)
                /\ Cardinality({i \in DOMAIN extracted : extracted[i] = methods[k]}) = 1


\* ========================================================================
\* TAG CLASSIFIER  (TagsGenerator.extractTagFromPath, extractTagsFromSchema,
\* generateTagFile)
\* ========================================================================
MaxSegs == 3
MaxPaths == 3
MaxCoreSegs == 2

\* Path segments and tags are sequences of characters.
SegV1         == <<"v", "1">>
SegV          == <<"v">>
SegV1a        == <<"v", "1", "a">>
SegInternal   == <<"i", "n", "t", "e", "r", "n", "a", "l">>
SegTournament == <<"t", "o", "u", "r", "n", "a", "m", "e", "n", "t">>
SegUsers      == <<"u", "s", "e", "r", "s">>
SegV1Users    == <<"v", "1", "_", "u", "s", "e", "r", "s">>
SegId         == <<"{", "i", "d", "}">>
SegEmpty      == <<>>
SegV1Upper    == <<"V", "1">>
TagRoot       == <<"r", "o", "o", "t">>
Null          == <<"null">>

\* the segments of the paths with one path per description, and of the
\* descriptions with several paths
Segs == {SegV1, SegV, SegV1a, SegInternal, SegTournament, SegUsers, SegV1Users,
         SegId, SegEmpty, SegV1Upper}
CoreSegs == {SegV1, SegInternal, SegUsers}

SchemaNames == {"auth", "content"}

Digits == {"0", "1", "2", "3", "4", "5", "6", "7", "8", "9"}

\* TagsGenerator.js:57: /^v\d+$/
IsVersion(seg) ==
    /\ Len(seg) >= 2
    /\ seg[1] = "v"
    /\ \A i \in 2..Len(seg) : seg[i] \in Digits

\* TagsGenerator.js:52: path.split('/').filter(Boolean)
NonEmptySegments(path) == SelectSeq(path, LAMBDA seg : seg # <<>>)

\* TagsGenerator.js:62,82: the tag left out for the content server
ExcludedFor_m(name, seg) == FALSE
ExcludedFor(name, seg) == name = "content" /\ seg = SegTournament

\* TagsGenerator.js:51-87
extractTagFromPath(path, name) ==
    LET segments == NonEmptySegments(path) IN
    IF Len(segments) = 0 THEN TagRoot
    ELSE IF IsVersion(segments[1])
    THEN IF Len(segments) > 1
         THEN IF ExcludedFor(name, segments[2]) THEN Null
              ELSE IF segments[2] = SegInternal THEN Null
              ELSE segments[1] \o <<"_">> \o segments[2]
         ELSE segments[1]
    ELSE IF segments[1] = SegInternal THEN Null
    ELSE IF ExcludedFor(name, segments[1]) THEN Null
    ELSE segments[1]

\* the paths of at most n segments over segs
PathsOver(segs, n) == UNION {[1..k -> segs] : k \in 0..n}

TagInit ==
    /\ serverName \in SchemaNames
    /\ \/ \E p \in PathsOver(Segs, MaxSegs) : paths = <<p>>
       \/ \E k \in 2..MaxPaths : \E ps \in [1..k -> PathsOver(CoreSegs, MaxCoreSegs)] :
             /\ \A i, j \in 1..k : i # j => ps[i] # ps[j]
             /\ paths = ps
    /\ pathIdx = 1 /\ tags = {} /\ pathsData = <<>> /\ assigned = <<>>
    /\ sortedTags = <<>> /\ tagStats = <<>> /\ tpc = "extract"
    /\ typedPaths = {} /\ endpointPaths = {}
    /\ NotTagIdle

\* TagsGenerator.js:112-125: one path of the paths block
TagPath ==
    /\ tpc = "extract" /\ pathIdx <= Len(paths)
    /\ LET tag == extractTagFromPath(paths[pathIdx], serverName) IN
          /\ assigned' = Append(assigned, tag)
          /\ IF tag # Null
             THEN /\ tags' = tags \cup {tag}
                  /\ pathsData' = Append(pathsData, [path |-> paths[pathIdx], tag |-> tag])
             ELSE UNCHANGED <<tags, pathsData>>
    /\ pathIdx' = pathIdx + 1
    /\ UNCHANGED <<serverName, paths, sortedTags, tagStats, typedPaths, endpointPaths, tpc>>
    /\ UNCHANGED notTagVars


\* the UTF-16 code units of the characters of segments and tags
CodeUnit(c) ==
    CASE c = "0" -> 48 [] c = "1" -> 49 [] c = "2" -> 50 [] c = "V" -> 86
      [] c = "_" -> 95
      [] c = "a" -> 97 [] c = "d" -> 100 [] c = "e" -> 101 [] c = "i" -> 105
      [] c = "l" -> 108 [] c = "m" -> 109 [] c = "n" -> 110 [] c = "o" -> 111
      [] c = "r" -> 114 [] c = "s" -> 115 [] c = "t" -> 116 [] c = "u" -> 117
      [] c = "v" -> 118 [] c = "{" -> 123 [] c = "}" -> 125

\* the order Array.prototype.sort() puts strings in: by code units, a
\* proper prefix first
RECURSIVE StringLess(_, _)
StringLess(a, b) ==
    IF b = <<>> THEN FALSE
    ELSE IF a = <<>> THEN TRUE
    ELSE IF Head(a) = Head(b) THEN StringLess(Tail(a), Tail(b))
    ELSE CodeUnit(Head(a)) < CodeUnit(Head(b))

\* TagsGenerator.js:137: Array.from(tags).sort()
RECURSIVE SortTags(_)
SortTags(set) ==
    IF set = {} THEN <<>>
    ELSE LET least == CHOOSE t \in set : \A u \in set \ {t} : StringLess(t, u)
         IN <<least>> \o SortTags(set \ {least})

\* TagsGenerator.js:140-143: the number of pathsData entries of each tag
CountTags_m(data, set) == [t \in set |-> 1]
CountTags(data, set) ==
    [t \in set |-> Cardinality({i \in DOMAIN data : data[i].tag = t})]

\* TagsGenerator.js:136-143, after the loop over the paths has ended
GenerateTagFile ==
    /\ tpc = "extract" /\ pathIdx > Len(paths)
    /\ sortedTags' = SortTags(tags)
    /\ tagStats' = CountTags(pathsData, tags)
    /\ tpc' = "done"
    /\ UNCHANGED <<serverName, paths, pathIdx, tags, pathsData, assigned,
                   typedPaths, endpointPaths>>
    /\ UNCHANGED notTagVars

\* TypeGenerator.js:87-106: processSchema goes over every path of the paths
\* block and every method of it (each path has an operation here); the
\* paths whose operations get aliases
TypedPathsOf(ps, given) == {ps[i] : i \in DOMAIN ps}

\* part_006:197: /^v\d+$/i
IsVersionIgnoreCase(seg) ==
    /\ Len(seg) >= 2
    /\ seg[1] \in {"v", "V"}
    /\ \A i \in 2..Len(seg) : seg[i] \in Digits

\* part_006:189-202: the tag the naming conventions give a path
namingTagOf(path) ==
    LET segments == NonEmptySegments(path) IN
    IF Len(segments) = 0 THEN TagRoot
    ELSE IF IsVersionIgnoreCase(segments[1]) /\ Len(segments) > 1
    THEN segments[1] \o <<"_">> \o segments[2]
    ELSE segments[1]

\* Generator.js:221-232 and EndpointGenerator.js:65-69: for every tag of
\* tags.ts, the paths whose naming tag is that tag
EndpointPathsOf(ps, tagList) ==
    {ps[i] : i \in {j \in DOMAIN ps :
                       \E k \in DOMAIN tagList : namingTagOf(ps[j]) = tagList[k]}}

\* the generateTypes step of the run, for this server
GenerateValidatedTypes ==
    /\ tpc = "done"
    /\ typedPaths' = TypedPathsOf(paths, assigned)
    /\ tpc' = "typed"
    /\ UNCHANGED <<serverName, paths, pathIdx, tags, pathsData, assigned, sortedTags,
                   tagStats, endpointPaths>>
    /\ UNCHANGED notTagVars

\* the generateEndpoints step of the run, for this server
GenerateEndpoints ==
    /\ tpc = "typed"
    /\ endpointPaths' = EndpointPathsOf(paths, sortedTags)
    /\ tpc' = "generated"
    /\ UNCHANGED <<serverName, paths, pathIdx, tags, pathsData, assigned, sortedTags,
                   tagStats, typedPaths>>
    /\ UNCHANGED notTagVars

TagNext == TagPath \/ GenerateTagFile \/ GenerateValidatedTypes \/ GenerateEndpoints

SpecTags == TagInit /\ [][TagNext]_vars

\* ---- properties ----
\* the first and second segment of a path
Seg0(path) == NonEmptySegments(path)[1]
Seg1(path) == NonEmptySegments(path)[2]

\* C13 as stated: root for the empty path; seg0_seg1 for a version segment
\* with a second segment, excluded when that is internal; else segment 0,
\* excluded when it is internal.
StatedTag(path) ==
    IF NonEmptySegments(path) = <<>> THEN TagRoot
    ELSE IF IsVersion(Seg0(path)) /\ Len(NonEmptySegments(path)) > 1
    THEN IF Seg1(path) = SegInternal THEN Null
         ELSE Seg0(path) \o <<"_">> \o Seg1(path)
    ELSE IF Seg0(path) = SegInternal THEN Null
    ELSE Seg0(path)

C13_TagOfPath ==
    \A i \in DOMAIN assigned : assigned[i] = StatedTag(paths[i])

\* C13 amended: as stated, and on the content server a path whose relevant
\* segment is tournament is excluded as well.
AmendedTag(path, name) ==
    LET segments == NonEmptySegments(path)
        relevant == IF segments = <<>> THEN <<>>
                    ELSE IF IsVersion(segments[1]) /\ Len(segments) > 1
                    THEN segments[2] ELSE segments[1]
    IN IF name = "content" /\ relevant = SegTournament THEN Null
       ELSE StatedTag(path)

C13_TagOfPathPerServer ==
    \A i \in DOMAIN assigned : assigned[i] = AmendedTag(paths[i], serverName)

\* /v1/tournament on the content server: the path is excluded
C13_Witness ==
    /\ serverName = "content"
    /\ paths = <<<<SegV1, SegTournament>>>>
    /\ assigned = <<Null>>

\* the tags the classifier gave to the paths, the excluded ones left out
GivenTags == {assigned[i] : i \in DOMAIN assigned} \ {Null}

RECURSIVE SumStats(_, _)
SumStats(stats, set) ==
    IF set = {} THEN 0
    ELSE LET t == CHOOSE u \in set : TRUE
         IN stats[t] + SumStats(stats, set \ {t})

C14_ExcludedNowhere ==
    tpc = "generated" =>
        \A i \in DOMAIN assigned :
            assigned[i] = Null =>
                /\ paths[i] \notin typedPaths
                /\ paths[i] \notin endpointPaths


\* ========================================================================
\* PROPERTY TYPE NAMES  (DeepSchemaTypeExtractor.generateUniqueTypeName and
\* the property loop of generateConsolidatedDeepSchemaFile)
\* ========================================================================
MaxNameParts == 3
MaxCoreNameParts == 2

\* Names are sequences of characters, built from these pieces.
NameFragments ==
    { <<"i", "s">>, <<"h", "a", "s">>, <<"a", "l", "l", "o", "w">>, <<"h", "i", "d", "e">>,
      <<"u", "r", "l">>, <<"U", "r", "l">>, <<"U", "R", "L">>,
      <<"i", "d">>, <<"I", "d">>, <<"I", "D">>,
      <<"0">>, <<"1">>, <<"x">>, <<"X">>, <<"_">> }

\* the pieces of the names of the runs with two properties
CoreNameFragments == { <<"0">>, <<"1">>, <<"x">>, <<"X">>, <<"U", "r", "l">>, <<"U", "R", "L">> }

\* the schemas the properties belong to
SchemaNamePool == { <<"A">>, <<"A", "_", "X">> }

UpperLetters ==
    {"A", "B", "C", "D", "E", "F", "G", "H", "I", "J", "K", "L",
     "M", "N", "O", "P", "Q", "R", "S", "T", "U", "V", "W", "X", "Y", "Z"}
DigitChars == {"0", "1"}

\* String.prototype.toUpperCase / toLowerCase, one character
ToUpper(c) ==
    CASE c = "a" -> "A" [] c = "b" -> "B" [] c = "c" -> "C" [] c = "d" -> "D"
      [] c = "e" -> "E" [] c = "f" -> "F" [] c = "g" -> "G" [] c = "h" -> "H"
      [] c = "i" -> "I" [] c = "j" -> "J" [] c = "k" -> "K" [] c = "l" -> "L"
      [] c = "m" -> "M" [] c = "n" -> "N" [] c = "o" -> "O" [] c = "p" -> "P"
      [] c = "q" -> "Q" [] c = "r" -> "R" [] c = "s" -> "S" [] c = "t" -> "T"
      [] c = "u" -> "U" [] c = "v" -> "V" [] c = "w" -> "W" [] c = "x" -> "X"
      [] c = "y" -> "Y" [] c = "z" -> "Z"
      [] OTHER -> c
ToLower(c) ==
    CASE c = "A" -> "a" [] c = "B" -> "b" [] c = "C" -> "c" [] c = "D" -> "d"
      [] c = "E" -> "e" [] c = "F" -> "f" [] c = "G" -> "g" [] c = "H" -> "h"
      [] c = "I" -> "i" [] c = "J" -> "j" [] c = "K" -> "k" [] c = "L" -> "l"
      [] c = "M" -> "m" [] c = "N" -> "n" [] c = "O" -> "o" [] c = "P" -> "p"
      [] c = "Q" -> "q" [] c = "R" -> "r" [] c = "S" -> "s" [] c = "T" -> "t"
      [] c = "U" -> "u" [] c = "V" -> "v" [] c = "W" -> "w" [] c = "X" -> "x"
      [] c = "Y" -> "y" [] c = "Z" -> "z"
      [] OTHER -> c
LowerCase(str) == [i \in 1..Len(str) |-> ToLower(str[i])]

StartsWith(str, pre) == Len(pre) <= Len(str) /\ SubSeq(str, 1, Len(pre)) = pre
EndsWith(str, suf) ==
    Len(suf) <= Len(str) /\ SubSeq(str, Len(str) - Len(suf) + 1, Len(str)) = suf
Includes(str, sub) ==
    \E i \in 1..(Len(str) - Len(sub) + 1) : SubSeq(str, i, i + Len(sub) - 1) = sub

\* part_002:582-589: split before every upper-case letter, upper-case the
\* first character of every word, join
toPascalCase(str) ==
    [i \in 1..Len(str) |-> IF i = 1 \/ str[i] \in UpperLetters THEN ToUpper(str[i]) ELSE str[i]]

\* typeName.replace(/<suf>$/, by)
ReplaceSuffix(str, suf, by) ==
    IF EndsWith(str, suf) THEN SubSeq(str, 1, Len(str) - Len(suf)) \o by ELSE str

AccountInfo == <<"A", "c", "c", "o", "u", "n", "t", "I", "n", "f", "o">>

\* part_002:594-641 (the rules for count and At return typeName as the
\* last line does)
generatePropertyTypeName(propertyName) ==
    LET typeName == toPascalCase(propertyName) IN
    IF propertyName[1] \in UpperLetters THEN propertyName
    ELSE IF \A i \in DOMAIN propertyName : propertyName[i] \in DigitChars THEN AccountInfo
    ELSE IF \/ StartsWith(propertyName, <<"i", "s">>)
            \/ StartsWith(propertyName, <<"h", "a", "s">>)
            \/ StartsWith(propertyName, <<"a", "l", "l", "o", "w">>)
            \/ StartsWith(propertyName, <<"h", "i", "d", "e">>)
    THEN typeName
    ELSE IF Includes(LowerCase(propertyName), <<"u", "r", "l">>)
    THEN ReplaceSuffix(typeName, <<"U", "r", "l">>, <<"U", "R", "L">>)
    ELSE IF Includes(LowerCase(propertyName), <<"i", "d">>)
    THEN ReplaceSuffix(typeName, <<"I", "d">>, <<"I", "D">>)
    ELSE typeName

\* part_002:647-652
generateUniqueTypeName(schema, propertyName) ==
    <<"P", "r", "o", "p", "s", "_">> \o schema \o <<"_">>
        \o generatePropertyTypeName(propertyName)

\* the names of at most n pieces
NamesOver(frags, n) == {Flatten(fs) : fs \in UNION {[1..k -> frags] : k \in 1..n}}

NameInit ==
    /\ \/ \E s \in SchemaNamePool : \E p \in NamesOver(NameFragments, MaxNameParts) :
             props = <<[schemaName |-> s, name |-> p]>>
       \/ \E s1, s2 \in SchemaNamePool :
          \E p1, p2 \in NamesOver(CoreNameFragments, MaxCoreNameParts) :
             /\ <<s1, p1>> # <<s2, p2>>
             /\ props = <<[schemaName |-> s1, name |-> p1], [schemaName |-> s2, name |-> p2]>>
    /\ propIdx = 1 /\ generatedPropertyTypes = {} /\ emitted = <<>> /\ npc = "emit"
    /\ NotNameIdle

\* part_002:910-916 (and 920-926): one property of the loop
EmitPropertyType ==
    /\ npc = "emit" /\ propIdx <= Len(props)
    /\ LET prop == props[propIdx]
           propTypeName == generateUniqueTypeName(prop.schemaName, prop.name)
       IN IF propTypeName \notin generatedPropertyTypes
          THEN /\ emitted' = Append(emitted, [alias |-> propTypeName,
                                              schemaName |-> prop.schemaName,
                                              name |-> prop.name])
               /\ generatedPropertyTypes' = generatedPropertyTypes \cup {propTypeName}
          ELSE UNCHANGED <<emitted, generatedPropertyTypes>>
    /\ propIdx' = propIdx + 1
    /\ UNCHANGED <<props, npc>>
    /\ UNCHANGED notNameVars

\* part_002:929: the loop over the properties has ended
EmitDone ==
    /\ npc = "emit" /\ propIdx > Len(props)
    /\ npc' = "done"
    /\ UNCHANGED <<props, propIdx, generatedPropertyTypes, emitted>>
    /\ UNCHANGED notNameVars

NameNext == EmitPropertyType \/ EmitDone

SpecNames == NameInit /\ [][NameNext]_vars

\* ---- properties ----
\* C16: different (schemaName, propertyName) pairs get different aliases,
\* so every property of the run has its alias emitted.
C16_NamesInjective ==
    npc = "done" =>
        /\ \A i, j \in DOMAIN props :
              i # j => generateUniqueTypeName(props[i].schemaName, props[i].name)
                       # generateUniqueTypeName(props[j].schemaName, props[j].name)
        /\ \A i \in DOMAIN props :
              \E e \in DOMAIN emitted : /\ emitted[e].schemaName = props[i].schemaName
                                        /\ emitted[e].name = props[i].name

\* the transformed name as stated: PascalCase, then a trailing Url to URL
\* and a trailing Id to ID; the boolean prefixes left as converted; one
\* fixed identifier for a numeric name
StatedTypeName(p) ==
    IF \A i \in DOMAIN p : p[i] \in DigitChars THEN AccountInfo
    ELSE IF \/ StartsWith(p, <<"i", "s">>) \/ StartsWith(p, <<"h", "a", "s">>)
            \/ StartsWith(p, <<"a", "l", "l", "o", "w">>) \/ StartsWith(p, <<"h", "i", "d", "e">>)
    THEN toPascalCase(p)
    ELSE ReplaceSuffix(ReplaceSuffix(toPascalCase(p), <<"U", "r", "l">>, <<"U", "R", "L">>),
                       <<"I", "d">>, <<"I", "D">>)

\* C17: the alias of property p of schema S is Props_S_T(p), for every
\* camelCase or numeric property name p.
C17_AliasName ==
    \A e \in DOMAIN emitted :
        emitted[e].name[1] \notin UpperLetters =>
            emitted[e].alias = <<"P", "r", "o", "p", "s", "_">> \o emitted[e].schemaName
                                   \o <<"_">> \o StatedTypeName(emitted[e].name)


\* ========================================================================
\* GENERATED IDENTIFIERS  (NamingConventions.generateFunctionName,
\* generateConstantName; EndpointGenerator.extractPathsFromSchema)
\* ========================================================================
MaxIdSegs == 2

\* the segments of the paths of the description
IdSegs == { <<"a">>, <<"x">>, <<"A">>, <<"a", "-", "x">>, <<"a", "_", "x">>,
            <<"{", "a", "}">>, <<"i", "d">> }

\* the methods the paths are declared with
IdMethods == {"get", "post"}

\* the text of a path: a slash before every segment
RECURSIVE PathString(_)
PathString(path) ==
    IF path = <<>> THEN <<>> ELSE <<"/">> \o Head(path) \o PathString(Tail(path))

\* \w
IsWordChar(c) == ToUpper(c) \in UpperLetters \/ c \in DigitChars \/ c = "_"

\* .replace(/\{[^}]+\}/g, 'ID')
RECURSIVE ReplaceParams(_)
ReplaceParams(str) ==
    IF str = <<>> THEN <<>>
    ELSE IF /\ Head(str) = "{"
            /\ \E k \in 3..Len(str) : str[k] = "}" /\ \A q \in 2..(k - 1) : str[q] # "}"
         THEN LET k == CHOOSE k \in 3..Len(str) :
                           str[k] = "}" /\ \A q \in 2..(k - 1) : str[q] # "}"
              IN <<"I", "D">> \o ReplaceParams(SubSeq(str, k + 1, Len(str)))
         ELSE <<Head(str)>> \o ReplaceParams(Tail(str))

\* .replace(/[^\w]/g, '_')
ReplaceNonWord(str) == [i \in 1..Len(str) |-> IF IsWordChar(str[i]) THEN str[i] ELSE "_"]

\* .replace(/_+/g, '_')
RECURSIVE CollapseUnderscores(_)
CollapseUnderscores(str) ==
    IF Len(str) < 2 THEN str
    ELSE IF str[1] = "_" /\ str[2] = "_" THEN CollapseUnderscores(Tail(str))
    ELSE <<Head(str)>> \o CollapseUnderscores(Tail(str))

\* .replace(/^_|_$/g, '')
TrimUnderscores(str) ==
    LET a == IF str # <<>> /\ str[1] = "_" THEN Tail(str) ELSE str
    IN IF a # <<>> /\ a[Len(a)] = "_" THEN SubSeq(a, 1, Len(a) - 1) ELSE a

\* part_006:46-50 and 90-94
cleanPath(path) ==
    TrimUnderscores(CollapseUnderscores(ReplaceNonWord(ReplaceParams(PathString(path)))))

UpperCase(str) == [i \in 1..Len(str) |-> ToUpper(str[i])]

MethodChars(method) ==
    IF method = "get" THEN <<"g", "e", "t">> ELSE <<"p", "o", "s", "t">>

\* part_006:89-98
generateConstantName(path, method) ==
    UpperCase(MethodChars(method)) \o <<"_">> \o UpperCase(cleanPath(path))

\* part_006:20-26: this.functionNaming
functionNaming(method) ==
    IF method = "get" THEN <<"f", "e", "t", "c", "h">> ELSE <<"c", "r", "e", "a", "t", "e">>

\* part_006:53-64: split at the underscores, drop the empty parts, upper-case
\* the first character of every part but the first, join
RECURSIVE CamelJoin(_, _)
CamelJoin(str, startsPart) ==
    IF str = <<>> THEN <<>>
    ELSE IF Head(str) = "_" THEN CamelJoin(Tail(str), TRUE)
    ELSE <<IF startsPart THEN ToUpper(Head(str)) ELSE Head(str)>>
         \o CamelJoin(Tail(str), FALSE)

\* part_006:44-72 (the first part is upper-cased at line 70)
generateFunctionName(path, method) ==
    functionNaming(method) \o CamelJoin(LowerCase(cleanPath(path)), TRUE)

IdPathsOver(n) == UNION {[1..k -> IdSegs] : k \in 1..n}

IdInit ==
    /\ \E p1, p2 \in IdPathsOver(MaxIdSegs) : \E m1, m2 \in IdMethods :
          /\ <<p1, m1>> # <<p2, m2>>
          /\ idPaths = <<[path |-> p1, method |-> m1], [path |-> p2, method |-> m2]>>
          /\ idTag \in {namingTagOf(p1), namingTagOf(p2)}
    /\ idIdx = 1 /\ endpointData = <<>> /\ ipc = "extract"
    /\ NotIdIdle

\* EndpointGenerator.js:65-88 and test-step1-schema.js:235-254: one path and
\* method of the description, for the tag the generators were called with
ExtractIdPath ==
    /\ ipc = "extract" /\ idIdx <= Len(idPaths)
    /\ LET p == idPaths[idIdx] IN
          IF namingTagOf(p.path) # idTag
          THEN UNCHANGED endpointData
          ELSE endpointData' =
                  Append(endpointData,
                         [path |-> p.path, method |-> p.method,
                          constantName |-> generateConstantName(p.path, p.method),
                          functionName |-> generateFunctionName(p.path, p.method)])
    /\ idIdx' = idIdx + 1
    /\ UNCHANGED <<idPaths, idTag, ipc>>
    /\ UNCHANGED notIdVars

\* EndpointGenerator.js:94: the list is returned
ExtractIdDone ==
    /\ ipc = "extract" /\ idIdx > Len(idPaths)
    /\ ipc' = "done"
    /\ UNCHANGED <<idPaths, idTag, idIdx, endpointData>>
    /\ UNCHANGED notIdVars

IdNext == ExtractIdPath \/ ExtractIdDone

SpecIds == IdInit /\ [][IdNext]_vars

\* ---- properties ----
\* C18: within one tag, different (path, method) pairs get different
\* endpoint constant names and different wrapper function names.
C18_IdentifiersCollisionFree ==
    ipc = "done" =>
        \A i, j \in DOMAIN endpointData :
            i # j => /\ endpointData[i].constantName # endpointData[j].constantName
                     /\ endpointData[i].functionName # endpointData[j].functionName


\* ========================================================================
\* ENABLED STEPS  (Generator.getEnabledSteps over every shape of a flag)
\* ========================================================================
\* config.featureFlags: every flag key with one of the shapes a config file
\* gives it ("absent" for every key is also the config without featureFlags,
\* Generator.js:94)
FlagInit ==
    /\ flagCfg \in [FlagKeys -> FlagValues]
    /\ kept = <<>> /\ fpc = "call"
    /\ NotFlagIdle

\* Generator.js:93-117: this.steps.filter(...)
GetEnabledSteps ==
    /\ fpc = "call"
    /\ kept' = getEnabledSteps(flagCfg)
    /\ fpc' = "done"
    /\ UNCHANGED flagCfg
    /\ UNCHANGED notFlagVars

FlagNext == GetEnabledSteps

SpecFlags == FlagInit /\ [][FlagNext]_vars

\* ---- properties ----
\* the rule as stated: a flag enables its step when it is the boolean true
\* or an object whose enabled is true
StatedOn(flag) == flag \in {"true", "objTrue"}

\* the steps in pipeline order that are required or whose flag is on
RECURSIVE StatedSteps(_, _)
StatedSteps(k, flags) ==
    IF k > Len(steps) THEN <<>>
    ELSE IF steps[k].required \/ StatedOn(flags[steps[k].flagKey])
         THEN <<steps[k]>> \o StatedSteps(k + 1, flags)
         ELSE StatedSteps(k + 1, flags)

\* C20: the enabled-step list is, in pipeline order, the required steps and
\* the optional steps whose flag is the boolean true or an object whose
\* enabled is true; a flag that is absent, false, {enabled: false} or an
\* object without enabled leaves its step out.
C20_EnabledSteps ==
    fpc = "done" => kept = StatedSteps(1, flagCfg)


\* ========================================================================
\* HOOK STEP  (Generator.executeStep over ReactQueryGenerator.generate)
\* ========================================================================
NumHookServers == 2
NumHookTags == 2

HookServers == 1..NumHookServers
HookTags == 1..NumHookTags

\* what is on disk at the domain-API path of a (server, tag): no file, a
\* file without wrapper functions, wrappers of GET operations only, wrappers
\* of GET and of other operations
ApiFileShapes == {"absent", "empty", "queries", "both"}

\* ReactQueryGenerator.js:43-95: what one call of generate(server, tag) does
\* with the domain-API file it finds; the schema file of the server is read
\* by buildPathToOperationIdMap (ReactQueryGenerator.js:516-518), which
\* throws when it is missing
GenerateOutcome_m(file, schemaThere) == "throw"
GenerateOutcome(file, schemaThere) ==
    IF file = "absent" THEN "skip"                     \* 50-53
    ELSE IF file = "empty" THEN "skip"                 \* 58-61
    ELSE IF ~schemaThere THEN "throw"                  \* 153 / 494-496
    ELSE "written"

\* ReactQueryGenerator.js:64-92: the hook files generate writes
WrittenHookFiles(s, t, file) ==
    IF file = "queries" THEN {<<s, t, "Queries">>}
    ELSE IF file = "both" THEN {<<s, t, "Queries">>, <<s, t, "Mutations">>}
    ELSE {}

HookInit ==
    /\ apiFile \in [HookServers -> [HookTags -> ApiFileShapes]]
    /\ schemaFile \in [HookServers -> BOOLEAN]
    /\ hs = 1 /\ ht = 1
    /\ hookFiles = {} /\ hookCalls = <<>> /\ hpc = "exec"
    /\ NotHookIdle

\* Generator.js:211-239: one pass of the tag loop of executeStep for the
\* hook step: executor.generate(server, tag); the result '' is not written
HookGenerate ==
    /\ hpc = "exec" /\ hs <= NumHookServers
    /\ LET file == apiFile[hs][ht]
           outcome == GenerateOutcome(file, schemaFile[hs]) IN
          /\ hookCalls' = Append(hookCalls, [server |-> hs, tag |-> ht, outcome |-> outcome])
          /\ IF outcome = "throw"
             THEN /\ hpc' = "failed"                   \* Generator.js:252-255
                  /\ UNCHANGED <<hs, ht, hookFiles>>
             ELSE /\ hookFiles' = IF outcome = "written"
                                  THEN hookFiles \cup WrittenHookFiles(hs, ht, file)
                                  ELSE hookFiles
                  /\ IF ht < NumHookTags
                     THEN ht' = ht + 1 /\ hs' = hs
                     ELSE ht' = 1 /\ hs' = hs + 1
                  /\ hpc' = hpc
    /\ UNCHANGED <<apiFile, schemaFile>>
    /\ UNCHANGED notHookVars

\* Generator.js:211: the loop over the servers is over, executeStep returns
HookStepDone ==
    /\ hpc = "exec" /\ hs > NumHookServers
    /\ hpc' = "done"
    /\ UNCHANGED <<apiFile, schemaFile, hs, ht, hookFiles, hookCalls>>
    /\ UNCHANGED notHookVars

HookNext == HookGenerate \/ HookStepDone

SpecHooks == HookInit /\ [][HookNext]_vars

\* ---- properties ----
\* the (server, tag) pairs in the order executeStep visits them
PairIndex(s, t) == (s - 1) * NumHookTags + t

\* C21: a call of generate for a (server, tag) whose domain-API file is
\* absent writes no hook file for the pair and raises no error, and the step
\* goes on: unless a later call throws, every later (server, tag) pair is
\* called before the step returns.
C21_AbsentApiSkipped ==
    \A k \in DOMAIN hookCalls :
        LET c == hookCalls[k] IN
        apiFile[c.server][c.tag] = "absent" =>
            /\ c.outcome = "skip"
            /\ \A f \in hookFiles : ~(f[1] = c.server /\ f[2] = c.tag)
            /\ hpc # "failed" \/ k < Len(hookCalls)
            /\ hpc = "done" =>
                  \A s \in HookServers, t \in HookTags :
                      PairIndex(s, t) > PairIndex(c.server, c.tag) =>
                          \E j \in DOMAIN hookCalls :
                              j > k /\ hookCalls[j].server = s /\ hookCalls[j].tag = t

\* the step returned after the first tag of the first server was skipped for
\* its absent file and hooks were written for a later tag and a later server
C21_Witness ==
    /\ hpc = "done"
    /\ apiFile[1][1] = "absent"
    /\ <<1, 2, "Queries">> \in hookFiles
    /\ <<2, 1, "Mutations">> \in hookFiles


\* ========================================================================
\* HOOK CLASSIFICATION  (NamingConventions.generateFunctionName with the
\* configured prefixes; ReactQueryGenerator.parseAPIFile)
\* ========================================================================
\* the HTTP methods a wrapper is generated for (test-step1-schema.js:241)
WrapperMethods == {"get", "post", "put", "patch", "delete"}

\* the characters of a method name
VerbChars(method) ==
    CASE method = "get" -> <<"g", "e", "t">> [] method = "post" -> <<"p", "o", "s", "t">>
      [] method = "put" -> <<"p", "u", "t">> [] method = "patch" -> <<"p", "a", "t", "c", "h">>
      [] OTHER -> <<"d", "e", "l", "e", "t", "e">>

\* codeGeneration.functionNaming: part_006:20-26, ConfigManager.js:948-955
DefaultNaming ==
    [m \in {"get", "post", "put", "patch", "delete"} |->
        CASE m = "get" -> <<"f", "e", "t", "c", "h">>
          [] m = "post" -> <<"c", "r", "e", "a", "t", "e">>
          [] m = "put" -> <<"u", "p", "d", "a", "t", "e">>
          [] m = "patch" -> <<"m", "o", "d", "i", "f", "y">>
          [] OTHER -> <<"r", "e", "m", "o", "v", "e">>]

\* codeGeneration.functionNaming: ConfigManager.js:958-963
RestfulStyle ==
    [m \in {"get", "post", "put", "delete"} |->
        CASE m = "get" -> <<"g", "e", "t">>
          [] m = "post" -> <<"c", "r", "e", "a", "t", "e">>
          [] m = "put" -> <<"u", "p", "d", "a", "t", "e">>
          [] OTHER -> <<"d", "e", "l", "e", "t", "e">>]

\* codeGeneration.functionNaming: ConfigManager.js:964-969
ServiceStyle ==
    [m \in {"get", "post", "put", "delete"} |->
        CASE m = "get" -> <<"f", "e", "t", "c", "h">>
          [] m = "post" -> <<"a", "d", "d">>
          [] m = "put" -> <<"r", "e", "p", "l", "a", "c", "e">>
          [] OTHER -> <<"r", "e", "m", "o", "v", "e">>]

\* codeGeneration.functionNaming: ConfigManager.js:970-975
DomainStyle ==
    [m \in {"get", "post", "put", "delete"} |->
        CASE m = "get" -> <<"r", "e", "t", "r", "i", "e", "v", "e">>
          [] m = "post" -> <<"r", "e", "g", "i", "s", "t", "e", "r">>
          [] m = "put" -> <<"m", "o", "d", "i", "f", "y">>
          [] OTHER -> <<"d", "e", "a", "c", "t", "i", "v", "a", "t", "e">>]

NamingMaps == {DefaultNaming, RestfulStyle, ServiceStyle, DomainStyle}

\* part_006:44-72 with this.functionNaming taken from the config:
\* this.functionNaming[method] || method
generateFunctionNameFor(naming, path, method) ==
    (IF method \in DOMAIN naming THEN naming[method] ELSE VerbChars(method))
        \o CamelJoin(LowerCase(cleanPath(path)), TRUE)

\* ReactQueryGenerator.js:112-121: the prefixes that make a mutation
MutationPrefixes == {<<"c", "r", "e", "a", "t", "e">>,
                     <<"m", "o", "d", "i", "f", "y">>,
                     <<"r", "e", "m", "o", "v", "e">>,
                     <<"u", "p", "d", "a", "t", "e">>,
                     <<"d", "e", "l", "e", "t", "e">>}

\* ReactQueryGenerator.js:111-121
hookTypeOf(functionName) ==
    IF \E p \in MutationPrefixes : StartsWith(functionName, p)
    THEN "mutation" ELSE "query"

ClsInit ==
    /\ namingCfg \in NamingMaps
    /\ wMethod \in WrapperMethods
    /\ wPath \in IdPathsOver(1)
    /\ wrapper = <<>> /\ hookType = "" /\ cpc = "generate"
    /\ NotClsIdle

\* test-step1-schema.js:241-246: the wrapper of a path and method is named
GenerateWrapper ==
    /\ cpc = "generate"
    /\ wrapper' = generateFunctionNameFor(namingCfg, wPath, wMethod)
    /\ cpc' = "parse"
    /\ UNCHANGED <<namingCfg, wMethod, wPath, hookType>>
    /\ UNCHANGED notClsVars

\* ReactQueryGenerator.js:107-130: parseAPIFile reads the wrapper back
ParseWrapper ==
    /\ cpc = "parse"
    /\ hookType' = hookTypeOf(wrapper)
    /\ cpc' = "parsed"
    /\ UNCHANGED <<namingCfg, wMethod, wPath, wrapper>>
    /\ UNCHANGED notClsVars

ClsNext == GenerateWrapper \/ ParseWrapper

SpecClassify == ClsInit /\ [][ClsNext]_vars

\* ---- properties ----
\* C22: under every configured verb-prefix map, the wrapper of a GET
\* operation gets a query hook and the wrapper of any other method gets a
\* mutation hook.
C22_HookKindByMethod ==
    cpc = "parsed" => (hookType = "query" <=> wMethod = "get")


\* ========================================================================
\* HOOK TYPE RESOLUTION  (ReactQueryGenerator.generateQueryHook,
\* generateMutationHook)
\* ========================================================================
\* a type that was not found
NoType == "null"

\* extractTypesFromAPIFunction (ReactQueryGenerator.js:547-581): the types
\* read off the wrapper's signature; a type is named after where it was found
SignatureTypes ==
    [paramsType : {NoType, "sigParams"}, bodyType : {NoType, "sigBody"},
     responseType : {NoType, "sigResponse"}]

\* validatedTypes.operationTypes[operationId] (ReactQueryGenerator.js:496-
\* 508): the types of the entry; an entry is made for a type that was found,
\* so the record without any type stands for no entry (or no operationId)
OperationTypes ==
    [params : {NoType, "opParams"}, body : {NoType, "opBody"},
     response : {NoType, "opResponse"}, ro : {NoType, "opRO"}]

\* operationId && validatedTypes.operationTypes[operationId]
HasEntry(e) ==
    e.params # NoType \/ e.body # NoType \/ e.response # NoType \/ e.ro # NoType

\* inferTypesFromFunctionName (ReactQueryGenerator.js:586-594)
InferredTypes ==
    [paramsType : {NoType, "nameParams"}, responseType : {NoType, "nameResponse"}]

UnknownTypes == [paramsType |-> NoType, bodyType |-> NoType, responseType |-> NoType]

\* ReactQueryGenerator.js:263-279 and 357-375: the types of an entry of the
\* operationId map; body is read for a mutation only
FromOperation(e, withBody) ==
    [paramsType |-> e.params,
     bodyType |-> IF withBody THEN e.body ELSE NoType,
     responseType |-> IF e.response # NoType THEN e.response ELSE e.ro]

\* ReactQueryGenerator.js:248-293
generateQueryHook(sig, op, inferred) ==
    IF sig.paramsType # NoType \/ sig.responseType # NoType
    THEN [paramsType |-> sig.paramsType, bodyType |-> NoType,
          responseType |-> sig.responseType]
    ELSE IF HasEntry(op)
    THEN FromOperation(op, FALSE)
    ELSE IF inferred.paramsType # NoType \/ inferred.responseType # NoType
    THEN [paramsType |-> inferred.paramsType, bodyType |-> NoType,
          responseType |-> inferred.responseType]
    ELSE UnknownTypes

\* ReactQueryGenerator.js:337-375
generateMutationHook(sig, op, inferred) ==
    IF sig.paramsType # NoType \/ sig.bodyType # NoType \/ sig.responseType # NoType
    THEN sig
    ELSE IF HasEntry(op)
    THEN FromOperation(op, TRUE)
    ELSE UnknownTypes

ResInit ==
    /\ hkKind \in {"query", "mutation"}
    /\ sigTypes \in SignatureTypes
    /\ opTypes \in OperationTypes
    /\ nameTypes \in InferredTypes
    /\ resolved = <<>> /\ tpcr = "resolve"
    /\ NotResIdle

\* ReactQueryGenerator.js:166-178 and 208-220: the hook of one function
ResolveHookTypes ==
    /\ tpcr = "resolve"
    /\ resolved' = IF hkKind = "query"
                   THEN generateQueryHook(sigTypes, opTypes, nameTypes)
                   ELSE generateMutationHook(sigTypes, opTypes, nameTypes)
    /\ tpcr' = "resolved"
    /\ UNCHANGED <<hkKind, sigTypes, opTypes, nameTypes>>
    /\ UNCHANGED notResVars

ResNext == ResolveHookTypes

SpecResolve == ResInit /\ [][ResNext]_vars

\* ---- properties ----
\* a record of types holds a type
YieldsType(t) ==
    t.paramsType # NoType \/ t.bodyType # NoType \/ t.responseType # NoType

\* what each tier yields for the hook: a query hook has no body type
Tier1 ==
    [sigTypes EXCEPT !.bodyType = IF hkKind = "mutation" THEN @ ELSE NoType]
Tier2 == FromOperation(opTypes, hkKind = "mutation")
Tier3 ==
    [paramsType |-> nameTypes.paramsType, bodyType |-> NoType,
     responseType |-> nameTypes.responseType]

\* C23: for a query hook and for a mutation hook, the types are those of the
\* first of the three tiers (signature, operationId map, inference from the
\* name) that yields a type; the hook is left with unknown types only when
\* none of the three yields one.
C23_ThreeTierFallback ==
    tpcr = "resolved" =>
        resolved = IF YieldsType(Tier1) THEN Tier1
                   ELSE IF YieldsType(Tier2) THEN Tier2
                   ELSE IF YieldsType(Tier3) THEN Tier3
                   ELSE UnknownTypes


\* ========================================================================
\* ENDPOINT FILE  (EndpointGenerator.generateEndpointFile)
\* ========================================================================
MaxEpSegs == 2

\* the segments of the paths of the tag: literals and placeholders
EpSegs == { <<"a">>, <<"x">>, <<"{", "a", "}">>, <<"{", "x", "}">>,
            <<"{", "a", "-", "x", "}">> }

EpPathsOver(n) == UNION {[1..k -> EpSegs] : k \in 1..n}

\* EndpointGenerator.js:77: path.includes('{')
isDynamic(str) == \E i \in DOMAIN str : str[i] = "{"

\* the end of the match of /\{([^}]+)\}/ that starts at position i, 0 if
\* none starts there
PlaceholderEnd(str, i) ==
    IF /\ str[i] = "{"
       /\ \E k \in (i + 2)..Len(str) : str[k] = "}" /\ \A q \in (i + 1)..(k - 1) : str[q] # "}"
    THEN CHOOSE k \in (i + 2)..Len(str) :
             str[k] = "}" /\ \A q \in (i + 1)..(k - 1) : str[q] # "}"
    ELSE 0

\* EndpointGenerator.js:141: p.path.match(/\{([^}]+)\}/g)?.map(m => m.slice(1, -1)) || []
RECURSIVE PlaceholderNames(_, _)
PlaceholderNames(str, i) ==
    IF i > Len(str) THEN <<>>
    ELSE LET e == PlaceholderEnd(str, i) IN
         IF e = 0 THEN PlaceholderNames(str, i + 1)
         ELSE <<SubSeq(str, i + 1, e - 1)>> \o PlaceholderNames(str, e + 1)

\* EndpointGenerator.js:143: p.path.replace(/\{([^}]+)\}/g, '${$1}'); the
\* parts of the template literal: characters and ${...} expressions
RECURSIVE pathTemplate(_, _)
pathTemplate(str, i) ==
    IF i > Len(str) THEN <<>>
    ELSE LET e == PlaceholderEnd(str, i) IN
         IF e = 0 THEN <<[chr |-> str[i]]>> \o pathTemplate(str, i + 1)
         ELSE <<[expr |-> SubSeq(str, i + 1, e - 1)]>> \o pathTemplate(str, e + 1)

\* EndpointGenerator.js:65-88: the entry of a path and method
EndpointEntry(path, method) ==
    [path |-> PathString(path), method |-> method,
     constantName |-> generateConstantName(path, method),
     isDynamic |-> isDynamic(PathString(path))]

\* Array.prototype.filter, in order
RECURSIVE FilterDynamic(_, _)
FilterDynamic(entries, dyn) ==
    IF entries = <<>> THEN <<>>
    ELSE IF Head(entries).isDynamic = dyn
         THEN <<Head(entries)>> \o FilterDynamic(Tail(entries), dyn)
         ELSE FilterDynamic(Tail(entries), dyn)

\* EndpointGenerator.js:121-128: the members of the constants section
StaticMembers(entries) ==
    LET st == FilterDynamic(entries, FALSE) IN
    [k \in DOMAIN st |->
        [doc |-> <<st[k].method, st[k].path>>, name |-> st[k].constantName,
         value |-> st[k].path]]

\* EndpointGenerator.js:133-149: the members of the helpers section
DynamicMembers(entries) ==
    LET dy == FilterDynamic(entries, TRUE) IN
    [k \in DOMAIN dy |->
        [doc |-> <<dy[k].method, dy[k].path>>, name |-> dy[k].constantName,
         paramList |-> PlaceholderNames(dy[k].path, 1),
         template |-> pathTemplate(dy[k].path, 1)]]

EpInit ==
    /\ \E p1, p2 \in EpPathsOver(MaxEpSegs) : \E m1, m2 \in IdMethods :
          /\ <<p1, m1>> # <<p2, m2>>
          /\ epPaths = <<EndpointEntry(p1, m1), EndpointEntry(p2, m2)>>
    /\ apiSection = <<>> /\ helpersSection = <<>> /\ epc = "generate"
    /\ NotEpIdle

\* EndpointGenerator.js:100-151
GenerateEndpointFile ==
    /\ epc = "generate"
    /\ apiSection' = StaticMembers(epPaths)
    /\ helpersSection' = DynamicMembers(epPaths)
    /\ epc' = "done"
    /\ UNCHANGED epPaths
    /\ UNCHANGED notEpVars

EpNext == GenerateEndpointFile

SpecEndpointFile == EpInit /\ [][EpNext]_vars

\* ---- properties ----
\* a parameter name the emitted arrow function can declare
IsIdentifier(name) ==
    /\ name # <<>>
    /\ \A i \in DOMAIN name : IsWordChar(name[i])
    /\ name[1] \notin DigitChars

\* the argument handed over for the k-th parameter
ArgOf(k) == <<"#", IF k = 1 THEN "1" ELSE IF k = 2 THEN "2" ELSE "3">>

SyntaxError == <<"SyntaxError">>

\* what the emitted member `(p1: string, ...) => `template`` returns when
\* it is called with ArgOf(1), ArgOf(2), ...: the member is a function only
\* when its parameters are distinct identifiers
RECURSIVE Fill(_, _)
Fill(parts, params) ==
    IF parts = <<>> THEN <<>>
    ELSE LET h == Head(parts) IN
         (IF "chr" \in DOMAIN h THEN <<h.chr>>
          ELSE ArgOf(CHOOSE k \in DOMAIN params : params[k] = h.expr))
         \o Fill(Tail(parts), params)

CallHelper(m) ==
    IF /\ \A k \in DOMAIN m.paramList : IsIdentifier(m.paramList[k])
       /\ \A j, k \in DOMAIN m.paramList : j # k => m.paramList[j] # m.paramList[k]
    THEN Fill(m.template, m.paramList)
    ELSE SyntaxError

\* the path with its k-th placeholder replaced by the k-th argument
RECURSIVE StatedResult(_, _, _)
StatedResult(str, i, k) ==
    IF i > Len(str) THEN <<>>
    ELSE LET e == PlaceholderEnd(str, i) IN
         IF e = 0 THEN <<str[i]>> \o StatedResult(str, i + 1, k)
         ELSE ArgOf(k) \o StatedResult(str, e + 1, k + 1)

DocOf(e) == <<e.method, e.path>>

\* C24: every (path, method) entry of the tag is one member of exactly one
\* of the two sections: when the path has no placeholder, a constant whose
\* value is the path; otherwise a function with one parameter per
\* placeholder, in path order, which returns the path with each placeholder
\* replaced by its argument.
C24_EndpointSections ==
    epc = "done" =>
        \A i \in DOMAIN epPaths :
            LET e == epPaths[i]
                inApi == {k \in DOMAIN apiSection : apiSection[k].doc = DocOf(e)}
                inHelpers == {k \in DOMAIN helpersSection : helpersSection[k].doc = DocOf(e)}
            IN /\ Cardinality(inApi) + Cardinality(inHelpers) = 1
               /\ IF PlaceholderNames(e.path, 1) = <<>>
                  THEN \E k \in inApi : apiSection[k].value = e.path
                  ELSE \E k \in inHelpers :
                          /\ Len(helpersSection[k].paramList) = Len(PlaceholderNames(e.path, 1))
                          /\ CallHelper(helpersSection[k]) = StatedResult(e.path, 1, 1)


\* ========================================================================
\* CONTROLLER HEADERS  (TypeGenerator.processSchema, the final clean-up)
\* ========================================================================
MaxOps == 3

\* the controller names (operationId.split('_')[0])
Controllers == {"Auth", "User"}

\* TypeGenerator.js:105-106 and 242: the lines one operation pushes: the
\* controller header, the operationId comment, the type aliases (here none
\* or one), and the empty line that ends a path
OperationLines(i, op) ==
    <<[k |-> "header", text |-> op.controller], [k |-> "comment", text |-> i]>>
    \o (IF op.hasType THEN <<[k |-> "type", text |-> i]>> ELSE <<>>)
    \o (IF op.endsPath THEN <<[k |-> "empty", text |-> 0]>> ELSE <<>>)

RECURSIVE LinesOf(_, _)
LinesOf(ops, i) ==
    IF i > Len(ops) THEN <<>> ELSE OperationLines(i, ops[i]) \o LinesOf(ops, i + 1)

OperationsOver(n) ==
    UNION {[1..k -> [controller : Controllers, hasType : BOOLEAN, endsPath : BOOLEAN]]
              : k \in 1..n}

\* line.startsWith('////')
IsHeaderLine(line) == line.k = "header"

\* TypeGenerator.js:260: a header is pushed when it differs from lastController
KeepsHeader_m(line, lastController) == TRUE
KeepsHeader(line, lastController) == line # lastController

\* TypeGenerator.js:256-267: the forEach over generatedTypes
RECURSIVE CollapseHeaders(_, _)
CollapseHeaders(lines, lastController) ==
    IF lines = <<>> THEN <<>>
    ELSE LET line == Head(lines) IN
         IF IsHeaderLine(line)
         THEN IF KeepsHeader(line, lastController)
              THEN <<line>> \o CollapseHeaders(Tail(lines), line)
              ELSE CollapseHeaders(Tail(lines), lastController)
         ELSE <<line>> \o CollapseHeaders(Tail(lines), lastController)

HdrInit ==
    /\ \E ops \in OperationsOver(MaxOps) : typeLines = LinesOf(ops, 1)
    /\ finalTypes = <<>> /\ dpc = "collapse"
    /\ NotHdrIdle

\* TypeGenerator.js:255-269; lastController starts as ''
FinishTypes ==
    /\ dpc = "collapse"
    /\ finalTypes' = CollapseHeaders(typeLines, [k |-> "header", text |-> ""])
    /\ dpc' = "done"
    /\ UNCHANGED typeLines
    /\ UNCHANGED notHdrVars

HdrNext == FinishTypes

SpecHeaders == HdrInit /\ [][HdrNext]_vars

\* ---- properties ----
\* the positions of the header lines of a list
HeaderPositions(lines) == {i \in DOMAIN lines : IsHeaderLine(lines[i])}

\* the header line before position i: the last one, if there is any
HasEarlierHeader(lines, i) == \E j \in HeaderPositions(lines) : j < i
EarlierHeader(lines, i) ==
    lines[CHOOSE j \in HeaderPositions(lines) :
              j < i /\ \A q \in HeaderPositions(lines) : q < i => q <= j]

\* the positions that stay: every non-header line, and every header line
\* that is the first header or differs from the header before it
Stays(lines, i) ==
    \/ ~IsHeaderLine(lines[i])
    \/ ~HasEarlierHeader(lines, i)
    \/ EarlierHeader(lines, i) # lines[i]

RECURSIVE Staying(_, _)
Staying(lines, i) ==
    IF i > Len(lines) THEN <<>>
    ELSE (IF Stays(lines, i) THEN <<lines[i]>> ELSE <<>>) \o Staying(lines, i + 1)

\* C25: in the emitted lines no two successive header lines (the lines
\* between them left aside) are identical; the emitted lines are the
\* generated lines without the headers that repeat the header before them:
\* the first header of a run stays, a header that differs from the one
\* before it stays, and every non-header line stays.
C25_HeadersCollapsed ==
    dpc = "done" =>
        /\ \A i \in HeaderPositions(finalTypes) :
              HasEarlierHeader(finalTypes, i) => EarlierHeader(finalTypes, i) # finalTypes[i]
        /\ finalTypes = Staying(typeLines, 1)

\* three operations of the controllers Auth, Auth, User: the second header
\* is dropped, the third is kept
C25_Witness ==
    /\ dpc = "done"
    /\ Cardinality(HeaderPositions(typeLines)) = 3
    /\ \E i, j, l \in HeaderPositions(typeLines) :
          /\ i < j /\ j < l
          /\ typeLines[i] = typeLines[j] /\ typeLines[j] # typeLines[l]
    /\ Cardinality(HeaderPositions(finalTypes)) = 2
    /\ Len(finalTypes) = Len(typeLines) - 1


\* ========================================================================
\* SCHEMA PARSER  (SchemaParser.loadSchema, extractPathsInterface,
\* extractAllPaths)
\* ========================================================================
MaxTextPaths == 2

\* the paths an interface description declares
TextPaths == {"/a", "/b"}

\* the texts of the schema file: with or without a paths interface, and the
\* paths the interface declares, in order and without repetition
SchemaTexts ==
    { [iface |-> FALSE, paths |-> <<>>] } \cup
    { [iface |-> TRUE, paths |-> p] :
        p \in { q \in UNION {[1..k -> TextPaths] : k \in 0..MaxTextPaths} :
                  \A i, j \in DOMAIN q : i # j => q[i] # q[j] } }

\* SchemaParser.js:88: the content of the paths interface of a text
PathsMatch(t) == t.paths

\* SchemaParser.js:107: this.pathsContent is taken when it is truthy (set
\* and not the empty string)
Truthy(isSet, content) == isSet /\ content # <<>>

PrsInit ==
    /\ fileText \in SchemaTexts
    /\ loaded = FALSE /\ schemaContent = [iface |-> FALSE, paths |-> <<>>]
    /\ cached = FALSE /\ pathsContent = <<>>
    /\ lastCall = "constructor" /\ result = <<>>
    /\ NotPrsIdle

\* the schema file is written again (the schema of the server is fetched
\* anew)
FileRewritten ==
    /\ lastCall # "idle"
    /\ fileText' \in SchemaTexts \ {fileText}
    /\ lastCall' = "rewritten"
    /\ UNCHANGED <<loaded, schemaContent, cached, pathsContent, result>>
    /\ UNCHANGED notPrsVars

\* SchemaParser.js:44-57
loadSchema ==
    /\ lastCall # "idle"
    /\ loaded' = TRUE /\ schemaContent' = fileText
    /\ lastCall' = "loadSchema"
    /\ UNCHANGED <<fileText, cached, pathsContent, result>>
    /\ UNCHANGED notPrsVars

\* SchemaParser.js:106-119, with extractPathsInterface (80-95) and
\* loadSchema (44-57) where they are called
extractAllPaths ==
    /\ lastCall # "idle"
    /\ LET txt == IF loaded THEN schemaContent ELSE fileText IN
          IF Truthy(cached, pathsContent)                \* SchemaParser.js:107
          THEN /\ result' = pathsContent
               /\ UNCHANGED <<loaded, schemaContent, cached, pathsContent>>
          ELSE /\ loaded' = TRUE /\ schemaContent' = txt
               /\ IF txt.iface
                  THEN /\ cached' = TRUE /\ pathsContent' = PathsMatch(txt)
                       /\ result' = PathsMatch(txt)
                  ELSE /\ UNCHANGED <<cached, pathsContent>>
                       /\ result' = <<>>
    /\ lastCall' = "extractAllPaths"
    /\ UNCHANGED fileText
    /\ UNCHANGED notPrsVars

PrsNext == FileRewritten \/ loadSchema \/ extractAllPaths

SpecParser == PrsInit /\ [][PrsNext]_vars

\* ---- properties ----
\* C26: the paths extractAllPaths returns are those of the text the parser
\* has loaded: the same on every call for the same text, and those of the
\* new text once another text has been loaded.
C26_ResultsOfLoadedText ==
    lastCall = "extractAllPaths" =>
        result = IF schemaContent.iface THEN PathsMatch(schemaContent) ELSE <<>>


\* ========================================================================
\* TAG CLASSIFIER: the two classifiers
\* ========================================================================
\* C28: every path the tag-list classifier gives a tag T (not null) gets
\* the same tag T from the classifier of the naming conventions, and once
\* the endpoints are generated for the tags of the tag list, the path is
\* among the paths they were generated for.
C28_ClassifiersAgree ==
    \A i \in DOMAIN assigned :
        assigned[i] # Null =>
            /\ namingTagOf(paths[i]) = assigned[i]
            /\ tpc = "generated" => paths[i] \in endpointPaths


\* ========================================================================
\* NESTED-SCHEMA WALKER: a schema with two reference paths
\* ========================================================================
\* the references of the schemas: a chain (every schema refers to the next
\* one or to nothing) and one more reference of the first schema, to a
\* schema further down the chain, before or after its reference to the
\* second schema
ShortcutRefs(c, j, first) ==
    [i \in Schemas |->
        IF i = 1
        THEN IF first THEN <<j, 2>> ELSE <<2, j>>
        ELSE RefChoice(i, c[i])]

WalkInitShortcut ==
    /\ \E c \in [Schemas -> 1..2] : \E j \in 3..NumSchemas : \E first \in BOOLEAN :
          refs = ShortcutRefs(c, j, first)
    /\ roots = [i \in Schemas |-> i]
    /\ rootIdx = 1
    /\ globalProcessedTypes = {} /\ allProcessedSchemas = <<>>
    /\ warned = FALSE /\ again = <<>> /\ wpc = "run"
    /\ NotWalkIdle

SpecWalkShortcut == WalkInitShortcut /\ [][WalkNext]_vars

\* ---- properties ----
\* the defined schemas at most k references away from schema r
RECURSIVE Within(_, _)
Within(r, k) ==
    IF k = 0 THEN {r}
    ELSE LET near == Within(r, k - 1) IN
         near \cup {x \in Schemas : \E y \in near : \E q \in DOMAIN refs[y] : refs[y][q] = x}

\* the schemas in the result of the walk from the first root
FirstWalkResult ==
    {allProcessedSchemas[1].nestedTypes[q].schemaName :
        q \in DOMAIN allProcessedSchemas[1].nestedTypes}

\* C29: every defined schema at most maxDepth references away from the root
\* is in the result of the walk from that root, in whatever order the
\* references are visited.
C29_ShortestDistanceReached ==
    Len(allProcessedSchemas) >= 1 =>
        \A x \in Within(1, maxDepth) \ {1} : x \in FirstWalkResult


\* ========================================================================
\* TAG FILE ROUND TRIP  (TagsGenerator.generateTagFile,
\* Generator.readServerTags)
\* ========================================================================
\* the names of the servers the steps are run for
ServerNamePool ==
    { <<"a", "u", "t", "h">>, <<"c", "o", "n", "t", "e", "n", "t">>,
      <<"a", "u", "t", "h", "2">> }

\* the tags the classifier gives the paths of a server
TagPool == {TagRoot, SegUsers, SegV1Users, SegId, SegV1}

TagsSuffix == <<"_", "T", "A", "G", "S">>

\* TagsGenerator.js:165-167: the lines of the array, `  'tag',`
RECURSIVE TagLines(_)
TagLines(list) ==
    IF list = <<>> THEN <<>>
    ELSE <<" ", " ", "'">> \o Head(list) \o <<"'", ",", "\n">> \o TagLines(Tail(list))

\* TagsGenerator.js:136-204: the declaration of the tag list in the file:
\* export const ${serverUpper}_TAGS = [ ... ] as const
generateTagFile(name, set) ==
    [const |-> UpperCase(name) \o TagsSuffix, content |-> TagLines(SortTags(set))]

\* Generator.js:270: /export const [A-Z_]+_TAGS = \[/ on the declaration
MatchesTagsConst(const) ==
    /\ EndsWith(const, TagsSuffix)
    /\ Len(const) > Len(TagsSuffix)
    /\ \A i \in 1..(Len(const) - Len(TagsSuffix)) :
          const[i] \in UpperLetters \cup {"_"}

IsQuoteChar(c) == c \in {"'", "\""}

\* Generator.js:274-277: tagsContent.match(/['"]([^'"]+)['"]/g) and
\* match.slice(1, -1)
RECURSIVE QuotedStrings(_, _)
QuotedStrings(str, i) ==
    IF i > Len(str) THEN <<>>
    ELSE IF /\ IsQuoteChar(str[i])
            /\ \E k \in (i + 2)..Len(str) :
                  IsQuoteChar(str[k]) /\ \A q \in (i + 1)..(k - 1) : ~IsQuoteChar(str[q])
         THEN LET k == CHOOSE k \in (i + 2)..Len(str) :
                           IsQuoteChar(str[k]) /\ \A q \in (i + 1)..(k - 1) : ~IsQuoteChar(str[q])
              IN <<SubSeq(str, i + 1, k - 1)>> \o QuotedStrings(str, k + 1)
         ELSE QuotedStrings(str, i + 1)

\* Generator.js:262-282, on the content of the server's tags.ts
parseServerTags(file) ==
    IF ~MatchesTagsConst(file.const) THEN <<>>          \* 271
    ELSE QuotedStrings(file.content, 1)

TfInit ==
    /\ tfServer \in ServerNamePool
    /\ tfTags \in SUBSET TagPool
    /\ tfFile = <<>> /\ parsedTags = <<>> /\ fpcT = "write"
    /\ NotTfIdle

\* the generateTags step: the file is generated and written (Generator.js:
\* 242-249)
WriteTagFile ==
    /\ fpcT = "write"
    /\ tfFile' = generateTagFile(tfServer, tfTags)
    /\ fpcT' = "read"
    /\ UNCHANGED <<tfServer, tfTags, parsedTags>>
    /\ UNCHANGED notTfVars

\* a per-tag step reads the tags back (Generator.js:220-229)
ReadTagFile ==
    /\ fpcT = "read"
    /\ parsedTags' = parseServerTags(tfFile)
    /\ fpcT' = "done"
    /\ UNCHANGED <<tfServer, tfTags, tfFile>>
    /\ UNCHANGED notTfVars

TfNext == WriteTagFile \/ ReadTagFile

SpecTagFile == TfInit /\ [][TfNext]_vars

\* ---- properties ----
\* C30: the tags the orchestrator reads back from the file the tag
\* generator wrote are the sorted tags that were written, for every server
\* name and every tag set.
C30_TagFileRoundTrip ==
    fpcT = "done" => parsedTags = SortTags(tfTags)

====
